---- MODULE Spec2Model ----
(***************************************************************************)
(* EduASM execution engine (src/src/routes/DebuggerStandalone.tsx):        *)
(* createCPU, resolveOperand, setFlags, step and run, driven by a host     *)
(* that calls step and run on one (CPU, memory, Program) triple.           *)
(*                                                                         *)
(* JavaScript numbers.  The engine computes with JS numbers (doubles) and  *)
(* only the Int32Array R wraps to 32 bits on store.  a + b of two int32    *)
(* values needs 33 bits and (a>>>0)+(b>>>0) needs 34, which TLC's 32-bit   *)
(* integers cannot hold, so a JS integer n is the record                   *)
(*      [hi |-> n \div 2^16, lo |-> n % 2^16]      (0 <= lo < 2^16)        *)
(* and every arithmetic step of the code is computed on that form, exact   *)
(* for |n| < 2^47.                                                         *)
(***************************************************************************)
EXTENDS Integers, Sequences, FiniteSets, TLC

\* ------------------------------------------------------------------------
\* JS numbers (integers) as hi/lo pairs
\* ------------------------------------------------------------------------
Base == 2^16
Half == 2^15

\* normal form of hi*Base + lo for any integer lo
Norm(h, l) == [hi |-> h + (l \div Base), lo |-> l % Base]

\* the JS number with the integer value n (n a 32-bit literal)
I(n) == Norm(0, n)

\* a + b
JsAdd(a, b) == Norm(a.hi + b.hi, a.lo + b.lo)

\* a - b
JsSub(a, b) == Norm(a.hi - b.hi, a.lo - b.lo)

\* a < b
JsLt(a, b) == \/ a.hi < b.hi
              \/ a.hi = b.hi /\ a.lo < b.lo

\* a > b, a >= b
JsGt(a, b) == JsLt(b, a)
JsGe(a, b) == ~JsLt(a, b)

Zero == I(0)
One == I(1)

\* n >>> 0 : ToUint32
ToUint32(n) == [hi |-> n.hi % Base, lo |-> n.lo]

\* n | 0, and the conversion an Int32Array store or DataView.setInt32 applies
ToInt32(n) ==
  LET h == n.hi % Base
  IN  [hi |-> IF h >= Half THEN h - Base ELSE h, lo |-> n.lo]

\* the int32 range, and the TLC integer of a number inside it
IsInt32(n) == n.hi >= -Half /\ n.hi < Half
IntOf(n) == n.hi * Base + n.lo

\* 0xFFFFFFFF
MaxUint32 == [hi |-> Base - 1, lo |-> Base - 1]
\* 2147483647 and -2147483648
MaxInt32 == [hi |-> Half - 1, lo |-> Base - 1]
MinInt32 == [hi |-> -Half, lo |-> 0]

\* bitwise and/or/xor of two n-bit naturals
RECURSIVE BitOp(_, _, _, _)
BitOp(f, a, b, n) ==
  IF n = 0 THEN 0
  ELSE LET x == a % 2
           y == b % 2
           bit == CASE f = "and" -> IF x = 1 /\ y = 1 THEN 1 ELSE 0
                    [] f = "or"  -> IF x = 1 \/ y = 1 THEN 1 ELSE 0
                    [] f = "xor" -> IF x # y THEN 1 ELSE 0
       IN  bit + 2 * BitOp(f, a \div 2, b \div 2, n - 1)

\* a & b, a | b, a ^ b : operands through ToInt32, result an int32
JsBitwise(f, a, b) ==
  LET x == ToUint32(a)
      y == ToUint32(b)
  IN  ToInt32([hi |-> BitOp(f, x.hi, y.hi, 16), lo |-> BitOp(f, x.lo, y.lo, 16)])

\* ~a
JsNot(a) ==
  LET x == ToUint32(a)
  IN  ToInt32([hi |-> Base - 1 - x.hi, lo |-> Base - 1 - x.lo])

\* an unsigned 32-bit value shifted left / right by k bits (0 <= k <= 31),
\* its halves shifted apart
ShlU(u, k) ==
  IF k < 16
    THEN [hi |-> (u.hi * 2^k + ((u.lo * 2^k) \div Base)) % Base, lo |-> (u.lo * 2^k) % Base]
    ELSE [hi |-> (u.lo * 2^(k - 16)) % Base, lo |-> 0]

ShrU(u, k) ==
  IF k < 16
    THEN [hi |-> u.hi \div 2^k, lo |-> (u.lo \div 2^k) + (u.hi % 2^k) * 2^(16 - k)]
    ELSE [hi |-> 0, lo |-> u.hi \div 2^(k - 16)]

\* the shift count JS uses: ToUint32(s) & 31
ShiftCount(s) == s.lo % 32

\* a << s (an int32), a >>> s (a uint32)
JsShl(a, s) == ToInt32(ShlU(ToUint32(a), ShiftCount(s)))
JsShrU(a, s) == ShrU(ToUint32(a), ShiftCount(s))

\* |a| and -a
JsNeg(a) == JsSub(Zero, a)
JsAbs(a) == IF a.hi < 0 THEN JsNeg(a) ELSE a

\* a * k for a small natural k
JsScale(a, k) == Norm(a.hi * k, a.lo * k)

\* quotient and remainder of naturals n, d (d > 0) by long division, one
\* hexadecimal digit of the quotient per level
RECURSIVE DivMod(_, _)
DivMod(n, d) ==
  IF JsLt(n, d) THEN [q |-> Zero, r |-> n]
  ELSE LET h == DivMod(n, JsScale(d, 16))
           k == CHOOSE j \in 0..15 : /\ JsGe(h.r, JsScale(d, j))
                                     /\ JsLt(h.r, JsScale(d, j + 1))
       IN  [q |-> JsAdd(JsScale(h.q, 16), I(k)), r |-> JsSub(h.r, JsScale(d, k))]

\* Math.trunc(a / b) for b # 0
JsTruncDiv(a, b) ==
  LET q == DivMod(JsAbs(a), JsAbs(b)).q
  IN  IF (a.hi < 0) = (b.hi < 0) THEN q ELSE JsNeg(q)

\* the exact product a * b as p2 * 2^32 + p1 * 2^16 + p0 (BigInt(a) * BigInt(b))
WideMul(a, b) ==
  LET blh == b.lo \div 256
      bll == b.lo % 256
      low0 == I(a.lo * blh)
      low == JsAdd(Norm(low0.hi * 256, low0.lo * 256), I(a.lo * bll))
      mid == JsAdd(I(a.hi * b.lo), I(a.lo * b.hi))
      m1 == mid.lo + low.hi
  IN  [p2 |-> a.hi * b.hi + mid.hi + (m1 \div Base), p1 |-> m1 % Base, p0 |-> low.lo]

\* Math.imul(a, b): the low 32 bits of the product, as an int32
JsImul(a, b) ==
  LET p == WideMul(ToInt32(a), ToInt32(b))
  IN  ToInt32([hi |-> p.p1, lo |-> p.p0])

\* the product a * b compared as the code compares the BigInt product
WideLt(p, q) == \/ p.p2 < q.p2
                \/ p.p2 = q.p2 /\ p.p1 < q.p1
                \/ p.p2 = q.p2 /\ p.p1 = q.p1 /\ p.p0 < q.p0

\* the literals 0x7FFFFFFFF and -0x800000000 of setFlags
MulHighLiteral == [p2 |-> 7, p1 |-> Base - 1, p0 |-> Base - 1]
MulLowLiteral == [p2 |-> -8, p1 |-> 0, p0 |-> 0]

\* ------------------------------------------------------------------------
\* CPU, memory, operands, programs
\* ------------------------------------------------------------------------
RAM_SIZE == 65536
STACK_START == I(RAM_SIZE - 4)

NumRegs == 8
RegIdx == 0..(NumRegs - 1)

\* REGISTERS: SP and BP are the sentinels -1 and -2
SPIdx == -1
BPIdx == -2

createCPU ==
  [R |-> [i \in RegIdx |-> Zero],
   SP |-> STACK_START,
   BP |-> STACK_START,
   IP |-> Zero,
   F |-> [ZF |-> FALSE, NF |-> FALSE, CF |-> FALSE, OF |-> FALSE],
   halted |-> FALSE]

\* A fresh Uint8Array(RAM_SIZE): every byte 0.  Memory is kept as the function
\* of its non-zero bytes; a byte outside the domain reads 0.
EmptyRam == [a \in {} |-> 0]

ByteAt(ram, a) == IF a \in DOMAIN ram THEN ram[a] ELSE 0

\* DataView.getInt32 / setInt32 throw a RangeError outside [0, byteLength - 4]
DataViewInRange(addr) == JsGe(addr, Zero) /\ JsLt(addr, I(RAM_SIZE - 3))

\* ram.getInt32(addr, true)
getInt32(ram, addr) ==
  LET a == IntOf(addr)
  IN  ToInt32([hi |-> ByteAt(ram, a + 2) + 256 * ByteAt(ram, a + 3),
               lo |-> ByteAt(ram, a) + 256 * ByteAt(ram, a + 1)])

\* ram.setInt32(addr, value) without the little-endian argument: the most
\* significant byte first; the store property tells it from setInt32
setInt32BigEndian(ram, addr, value) ==
  LET a == IntOf(addr)
      u == ToUint32(value)
      byte(k) == CASE k = a     -> u.hi \div 256
                   [] k = a + 1 -> u.hi % 256
                   [] k = a + 2 -> u.lo \div 256
                   [] k = a + 3 -> u.lo % 256
      new(k) == IF k \in a..(a + 3) THEN byte(k) ELSE ram[k]
  IN  [k \in {j \in DOMAIN ram \cup (a..(a + 3)) : new(j) # 0} |-> new(k)]

\* ram.setInt32(addr, value, true)
setInt32(ram, addr, value) ==
  LET a == IntOf(addr)
      u == ToUint32(value)
      byte(k) == CASE k = a     -> u.lo % 256
                   [] k = a + 1 -> u.lo \div 256
                   [] k = a + 2 -> u.hi % 256
                   [] k = a + 3 -> u.hi \div 256
      new(k) == IF k \in a..(a + 3) THEN byte(k) ELSE ram[k]
  IN  [k \in {j \in DOMAIN ram \cup (a..(a + 3)) : new(j) # 0} |-> new(k)]

\* Operand: {type, value, offset?, indirect?}.  value is a number or, for a
\* label reference, a string: name holds the string ("" when value is a number).
Reg(i) == [type |-> "reg", value |-> I(i), name |-> "", offset |-> Zero, indirect |-> FALSE]
Imm(n) == [type |-> "imm", value |-> n, name |-> "", offset |-> Zero, indirect |-> FALSE]
MemAbs(a) == [type |-> "mem", value |-> I(a), name |-> "", offset |-> Zero, indirect |-> FALSE]
MemInd(i, off) == [type |-> "mem", value |-> I(i), name |-> "", offset |-> I(off), indirect |-> TRUE]
MemLabel(l) == [type |-> "mem", value |-> Zero, name |-> l, offset |-> Zero, indirect |-> FALSE]
Label(l) == [type |-> "label", value |-> Zero, name |-> l, offset |-> Zero, indirect |-> FALSE]

\* typeof operand.value === 'string'
IsString(operand) == operand.name # ""

\* Instruction: {op, operands, line}
Ins(op, operands, line) == [op |-> op, operands |-> operands, line |-> line]

\* cpu.R[regIndex] / cpu.SP / cpu.BP by register index
GetBase(cpu, regIndex) ==
  IF regIndex = SPIdx THEN cpu.SP
  ELSE IF regIndex = BPIdx THEN cpu.BP
  ELSE cpu.R[regIndex]

\* the store by register index; the Int32Array wraps, SP and BP do not
SetBase(cpu, regIndex, v) ==
  IF regIndex = SPIdx THEN [cpu EXCEPT !.SP = v]
  ELSE IF regIndex = BPIdx THEN [cpu EXCEPT !.BP = v]
  ELSE [cpu EXCEPT !.R[regIndex] = ToInt32(v)]

\* ------------------------------------------------------------------------
\* resolveOperand
\* ------------------------------------------------------------------------
Value(v) == [ok |-> TRUE, v |-> v, msg |-> ""]
Raise(m) == [ok |-> FALSE, v |-> Zero, msg |-> m]

\* the address of a memory operand, before the bounds check
MemAddr(operand, cpu, labels) ==
  IF IsString(operand)
    THEN IF operand.name \in DOMAIN labels THEN Value(labels[operand.name])
         ELSE Raise("Undefined label")
  ELSE IF operand.indirect
    THEN Value(JsAdd(GetBase(cpu, IntOf(operand.value)), operand.offset))
  ELSE Value(operand.value)

\* resolveOperand with the bound parseOperand puts on an absolute address
\* (addr >= RAM_SIZE): a word may begin in the last three bytes; the
\* out-of-range property tells it from resolveOperand
resolveOperandLooseBound(operand, cpu, ram, labels) ==
  CASE operand.type = "imm" -> Value(operand.value)
    [] operand.type = "reg" ->
         LET regIndex == IntOf(operand.value)
         IN  IF regIndex = SPIdx THEN Value(cpu.SP)
             ELSE IF regIndex = BPIdx THEN Value(cpu.BP)
             ELSE IF regIndex < 0 \/ regIndex >= NumRegs THEN Raise("Invalid register index")
             ELSE Value(cpu.R[regIndex])
    [] operand.type = "mem" ->
         LET addr == MemAddr(operand, cpu, labels)
         IN  IF ~addr.ok THEN addr
             ELSE IF JsLt(addr.v, Zero) \/ JsGe(addr.v, I(RAM_SIZE))
               THEN Raise("Memory access out of bounds")
             ELSE Value(getInt32(ram, addr.v))
    [] operand.type = "label" ->
         IF operand.name \in DOMAIN labels THEN Value(labels[operand.name])
         ELSE Raise("Undefined label")
    [] OTHER -> Raise("Invalid operand type")

resolveOperand(operand, cpu, ram, labels) ==
  CASE operand.type = "imm" -> Value(operand.value)
    [] operand.type = "reg" ->
         LET regIndex == IntOf(operand.value)
         IN  IF regIndex = SPIdx THEN Value(cpu.SP)
             ELSE IF regIndex = BPIdx THEN Value(cpu.BP)
             ELSE IF regIndex < 0 \/ regIndex >= NumRegs THEN Raise("Invalid register index")
             ELSE Value(cpu.R[regIndex])
    [] operand.type = "mem" ->
         LET addr == MemAddr(operand, cpu, labels)
         IN  IF ~addr.ok THEN addr
             ELSE IF JsLt(addr.v, Zero) \/ JsGe(addr.v, I(RAM_SIZE - 3))
               THEN Raise("Memory access out of bounds")
             ELSE Value(getInt32(ram, addr.v))
    [] operand.type = "label" ->
         IF operand.name \in DOMAIN labels THEN Value(labels[operand.name])
         ELSE Raise("Undefined label")
    [] OTHER -> Raise("Invalid operand type")

\* setFlags with the borrow of a subtraction taken from the signed operands
\* (a < b without the >>> 0); the carry property tells it from setFlags
setFlagsSignedBorrow(cpu, result, a, b, operation) ==
  LET ZF == result = Zero
      NF == JsLt(result, Zero)
      signA == JsLt(a, Zero)
      signB == JsLt(b, Zero)
      signResult == JsLt(result, Zero)
      product == WideMul(a, b)
      mulCF == WideLt(MulHighLiteral, product) \/ WideLt(product, MulLowLiteral)
  IN  CASE operation = "add" ->
             [cpu EXCEPT !.F = [ZF |-> ZF, NF |-> NF,
                                CF |-> JsGt(JsAdd(ToUint32(a), ToUint32(b)), MaxUint32),
                                OF |-> (signA = signB) /\ (signA # signResult)]]
        [] operation = "sub" ->
             [cpu EXCEPT !.F = [ZF |-> ZF, NF |-> NF,
                                CF |-> JsLt(a, b),
                                OF |-> (signA # signB) /\ (signB = signResult)]]
        [] operation = "mul" ->
             [cpu EXCEPT !.F = [ZF |-> ZF, NF |-> NF, CF |-> mulCF, OF |-> mulCF]]
        [] OTHER ->
             [cpu EXCEPT !.F = [ZF |-> ZF, NF |-> NF, CF |-> FALSE, OF |-> FALSE]]

\* ------------------------------------------------------------------------
\* setFlags
\* ------------------------------------------------------------------------
setFlags(cpu, result, a, b, operation) ==
  LET ZF == result = Zero
      NF == JsLt(result, Zero)
      signA == JsLt(a, Zero)
      signB == JsLt(b, Zero)
      signResult == JsLt(result, Zero)
      product == WideMul(a, b)
      mulCF == WideLt(MulHighLiteral, product) \/ WideLt(product, MulLowLiteral)
  IN  CASE operation = "add" ->
             [cpu EXCEPT !.F = [ZF |-> ZF, NF |-> NF,
                                CF |-> JsGt(JsAdd(ToUint32(a), ToUint32(b)), MaxUint32),
                                OF |-> (signA = signB) /\ (signA # signResult)]]
        [] operation = "sub" ->
             [cpu EXCEPT !.F = [ZF |-> ZF, NF |-> NF,
                                CF |-> JsLt(ToUint32(a), ToUint32(b)),
                                OF |-> (signA # signB) /\ (signB = signResult)]]
        [] operation = "mul" ->
             [cpu EXCEPT !.F = [ZF |-> ZF, NF |-> NF, CF |-> mulCF, OF |-> mulCF]]
        [] OTHER ->
             [cpu EXCEPT !.F = [ZF |-> ZF, NF |-> NF, CF |-> FALSE, OF |-> FALSE]]

\* ------------------------------------------------------------------------
\* step: one opcode dispatch.  The body of the switch yields how the case
\* ends: "break" (fall to cpu.IP++), "return" (leave without the increment)
\* or "throw" (an Error caught at the end of step), with the CPU and memory
\* as the case has left them and the syscalls handed to the onSys hook.
\* ------------------------------------------------------------------------
Break(c, r) == [cpu |-> c, ram |-> r, out |-> "break", msg |-> "", sys |-> <<>>]
Return(c, r) == [cpu |-> c, ram |-> r, out |-> "return", msg |-> "", sys |-> <<>>]
Throw(c, r, m) == [cpu |-> c, ram |-> r, out |-> "throw", msg |-> m, sys |-> <<>>]

\* case 'MOV'
ExecMOV(cpu, program, ram, operands) ==
  LET src == IF operands[2].type = "label"
               THEN Value(program.labels[operands[2].name])
               ELSE resolveOperand(operands[2], cpu, ram, program.labels)
  IN  IF ~src.ok THEN Throw(cpu, ram, src.msg)
      ELSE IF operands[1].type = "reg"
        THEN Break(SetBase(cpu, IntOf(operands[1].value), src.v), ram)
      ELSE Throw(cpu, ram, "MOV destination must be register")

\* case 'LOAD'
ExecLOAD(cpu, program, ram, operands) ==
  LET value == resolveOperand(operands[2], cpu, ram, program.labels)
  IN  IF ~value.ok THEN Throw(cpu, ram, value.msg)
      ELSE IF operands[1].type = "reg"
        THEN Break(SetBase(cpu, IntOf(operands[1].value), value.v), ram)
      ELSE Throw(cpu, ram, "LOAD destination must be register")

\* case 'STORE'
ExecSTORE(cpu, program, ram, operands) ==
  LET value == resolveOperand(operands[2], cpu, ram, program.labels)
      addr == IF IsString(operands[1]) THEN program.labels[operands[1].name]
              ELSE IF operands[1].indirect
                THEN JsAdd(GetBase(cpu, IntOf(operands[1].value)), operands[1].offset)
              ELSE operands[1].value
  IN  IF ~value.ok THEN Throw(cpu, ram, value.msg)
      ELSE IF operands[1].type # "mem"
        THEN Throw(cpu, ram, "STORE destination must be memory reference")
      ELSE IF JsLt(addr, Zero) \/ JsGe(addr, I(RAM_SIZE - 3))
        THEN Throw(cpu, ram, "Memory store out of bounds")
      ELSE Break(cpu, setInt32(ram, addr, value.v))

\* case 'LEA'
ExecLEA(cpu, program, ram, operands) ==
  LET addr == IF operands[2].type = "label" THEN program.labels[operands[2].name]
              ELSE IF operands[2].type = "mem" /\ IsString(operands[2])
                THEN program.labels[operands[2].name]
              ELSE operands[2].value
  IN  IF operands[1].type # "reg" THEN Throw(cpu, ram, "LEA destination must be register")
      ELSE Break(SetBase(cpu, IntOf(operands[1].value), addr), ram)

\* the result expression of a two-operand arithmetic or logic case
BinaryResult(op, a, b) ==
  CASE op = "ADD" -> JsAdd(a, b)
    [] op = "SUB" -> JsSub(a, b)
    [] op = "MUL" -> JsImul(a, b)
    [] op = "AND" -> JsBitwise("and", a, b)
    [] op = "OR"  -> JsBitwise("or", a, b)
    [] op = "XOR" -> JsBitwise("xor", a, b)

\* the operation name the case hands to setFlags
BinaryFlags(op) ==
  CASE op = "ADD" -> "add"
    [] op = "SUB" -> "sub"
    [] op = "MUL" -> "mul"
    [] OTHER -> "logic"

\* case 'ADD', 'SUB', 'MUL', 'AND', 'OR', 'XOR'
ExecBinary(cpu, program, ram, op, operands) ==
  LET regIndex == IntOf(operands[1].value)
      a == GetBase(cpu, regIndex)
      b == resolveOperand(operands[2], cpu, ram, program.labels)
      result == BinaryResult(op, a, b.v)
  IN  IF ~b.ok THEN Throw(cpu, ram, b.msg)
      ELSE Break(setFlags(SetBase(cpu, regIndex, result), result, a, b.v, BinaryFlags(op)), ram)

\* DIV with the zero test after the store: a / 0 is +-Infinity or NaN, which
\* an Int32Array keeps as 0; the division-by-zero property tells it from ExecDIV
ExecDIVStoreFirst(cpu, program, ram, operands) ==
  LET b == resolveOperand(operands[2], cpu, ram, program.labels)
      regIndex == IntOf(operands[1].value)
      a == GetBase(cpu, regIndex)
      result == JsTruncDiv(a, b.v)
  IN  IF ~b.ok THEN Throw(cpu, ram, b.msg)
      ELSE IF b.v = Zero
        THEN Throw([SetBase(cpu, regIndex, Zero) EXCEPT !.F.CF = TRUE], ram,
                   "Division by zero")
      ELSE Break(setFlags(SetBase(cpu, regIndex, result), result, a, b.v, "div"), ram)

\* case 'DIV'
ExecDIV(cpu, program, ram, operands) ==
  LET b == resolveOperand(operands[2], cpu, ram, program.labels)
      regIndex == IntOf(operands[1].value)
      a == GetBase(cpu, regIndex)
      result == JsTruncDiv(a, b.v)
  IN  IF ~b.ok THEN Throw(cpu, ram, b.msg)
      ELSE IF b.v = Zero THEN Throw([cpu EXCEPT !.F.CF = TRUE], ram, "Division by zero")
      ELSE Break(setFlags(SetBase(cpu, regIndex, result), result, a, b.v, "div"), ram)

\* case 'INC', 'DEC', 'NOT'
ExecUnary(cpu, ram, op, operands) ==
  LET regIndex == IntOf(operands[1].value)
      current == GetBase(cpu, regIndex)
      result == CASE op = "INC" -> JsAdd(current, One)
                  [] op = "DEC" -> JsSub(current, One)
                  [] op = "NOT" -> JsNot(current)
      operation == CASE op = "INC" -> "add"
                     [] op = "DEC" -> "sub"
                     [] op = "NOT" -> "logic"
  IN  Break(setFlags(SetBase(cpu, regIndex, result), result, current, One, operation), ram)

\* case 'SHL', 'SHR': the carry the case writes is overwritten by setFlags
ExecShift(cpu, program, ram, op, operands) ==
  LET regIndex == IntOf(operands[1].value)
      current == GetBase(cpu, regIndex)
      shift == resolveOperand(operands[2], cpu, ram, program.labels)
      result == IF op = "SHL" THEN JsShl(current, shift.v) ELSE JsShrU(current, shift.v)
      n == IntOf(shift.v)
      carry == /\ n > 0
               /\ IF op = "SHL" THEN ShrU(ToUint32(current), 32 - n).lo % 2 = 1
                  ELSE ShrU(ToUint32(current), n - 1).lo % 2 = 1
      withCarry == [SetBase(cpu, regIndex, result) EXCEPT !.F.CF = carry]
  IN  IF ~shift.ok THEN Throw(cpu, ram, shift.msg)
      ELSE IF JsLt(shift.v, Zero) \/ JsGt(shift.v, I(31))
        THEN Throw(cpu, ram, "Invalid shift amount")
      ELSE Break(setFlags(withCarry, result, Zero, Zero, "logic"), ram)

\* CMP with the difference wrapped to 32 bits before the flags are set; the
\* comparison property tells it from ExecCMP
ExecCMPWrapped(cpu, program, ram, operands) ==
  LET a == resolveOperand(operands[1], cpu, ram, program.labels)
      b == resolveOperand(operands[2], cpu, ram, program.labels)
  IN  IF ~a.ok THEN Throw(cpu, ram, a.msg)
      ELSE IF ~b.ok THEN Throw(cpu, ram, b.msg)
      ELSE Break(setFlags(cpu, ToInt32(JsSub(a.v, b.v)), a.v, b.v, "cmp"), ram)

\* case 'CMP'
ExecCMP(cpu, program, ram, operands) ==
  LET a == resolveOperand(operands[1], cpu, ram, program.labels)
      b == resolveOperand(operands[2], cpu, ram, program.labels)
  IN  IF ~a.ok THEN Throw(cpu, ram, a.msg)
      ELSE IF ~b.ok THEN Throw(cpu, ram, b.msg)
      ELSE Break(setFlags(cpu, JsSub(a.v, b.v), a.v, b.v, "cmp"), ram)

\* case 'JMP'
ExecJMP(cpu, program, ram, operands) ==
  LET target == resolveOperand(operands[1], cpu, ram, program.labels)
  IN  IF ~target.ok THEN Throw(cpu, ram, target.msg)
      ELSE IF JsLt(target.v, Zero) \/ JsGe(target.v, I(Len(program.ast)))
        THEN Throw(cpu, ram, "Jump target out of bounds")
      ELSE Return([cpu EXCEPT !.IP = target.v], ram)

\* the jump conditions with JL reading the sign alone (NF, without OF); the
\* jump property tells it from JumpTaken
JumpTakenSignOnly(op, F) ==
  CASE op = "JZ"  -> F.ZF
    [] op = "JNZ" -> ~F.ZF
    [] op = "JC"  -> F.CF
    [] op = "JNC" -> ~F.CF
    [] op = "JN"  -> F.NF
    [] op = "JNN" -> ~F.NF
    [] op = "JG"  -> ~F.ZF /\ F.NF = F.OF
    [] op = "JGE" -> F.NF = F.OF
    [] op = "JL"  -> F.NF
    [] op = "JLE" -> F.ZF \/ F.NF # F.OF

\* the flag condition of each conditional jump
JumpTaken(op, F) ==
  CASE op = "JZ"  -> F.ZF
    [] op = "JNZ" -> ~F.ZF
    [] op = "JC"  -> F.CF
    [] op = "JNC" -> ~F.CF
    [] op = "JN"  -> F.NF
    [] op = "JNN" -> ~F.NF
    [] op = "JG"  -> ~F.ZF /\ F.NF = F.OF
    [] op = "JGE" -> F.NF = F.OF
    [] op = "JL"  -> F.NF # F.OF
    [] op = "JLE" -> F.ZF \/ F.NF # F.OF

\* case 'JZ' ... 'JLE': the target is not range-checked
ExecJcc(cpu, program, ram, op, operands) ==
  LET target == resolveOperand(operands[1], cpu, ram, program.labels)
  IN  IF ~JumpTaken(op, cpu.F) THEN Break(cpu, ram)
      ELSE IF ~target.ok THEN Throw(cpu, ram, target.msg)
      ELSE Return([cpu EXCEPT !.IP = target.v], ram)

\* PUSH with the overflow test off by one (SP <= 0 after the decrement); the
\* stack-limit property tells it from ExecPUSH
ExecPUSHOffByOne(cpu, program, ram, operands) ==
  LET value == resolveOperand(operands[1], cpu, ram, program.labels)
      lowered == [cpu EXCEPT !.SP = JsSub(cpu.SP, I(4))]
  IN  IF ~value.ok THEN Throw(cpu, ram, value.msg)
      ELSE IF JsLt(lowered.SP, One) THEN Throw(lowered, ram, "Stack overflow")
      ELSE IF ~DataViewInRange(lowered.SP) THEN Throw(lowered, ram, "RangeError")
      ELSE Break(lowered, setInt32(ram, lowered.SP, value.v))

\* case 'PUSH': SP is lowered before the overflow check and before the write
ExecPUSH(cpu, program, ram, operands) ==
  LET value == resolveOperand(operands[1], cpu, ram, program.labels)
      lowered == [cpu EXCEPT !.SP = JsSub(cpu.SP, I(4))]
  IN  IF ~value.ok THEN Throw(cpu, ram, value.msg)
      ELSE IF JsLt(lowered.SP, Zero) THEN Throw(lowered, ram, "Stack overflow")
      ELSE IF ~DataViewInRange(lowered.SP) THEN Throw(lowered, ram, "RangeError")
      ELSE Break(lowered, setInt32(ram, lowered.SP, value.v))

\* POP reading the word after it has raised SP; the stack-balance property
\* tells it from ExecPOP
ExecPOPReadAfter(cpu, ram, operands) ==
  LET raised == [cpu EXCEPT !.SP = JsAdd(cpu.SP, I(4))]
  IN  IF JsGe(cpu.SP, I(RAM_SIZE - 4)) THEN Throw(cpu, ram, "Stack underflow")
      ELSE IF ~DataViewInRange(cpu.SP) THEN Throw(cpu, ram, "RangeError")
      ELSE IF operands[1].type = "reg"
        THEN Break(SetBase(raised, IntOf(operands[1].value), getInt32(ram, raised.SP)), ram)
      ELSE Throw(raised, ram, "POP destination must be register")

\* case 'POP': SP is raised before the destination check
ExecPOP(cpu, ram, operands) ==
  LET raised == [cpu EXCEPT !.SP = JsAdd(cpu.SP, I(4))]
  IN  IF JsGe(cpu.SP, I(RAM_SIZE - 4)) THEN Throw(cpu, ram, "Stack underflow")
      ELSE IF ~DataViewInRange(cpu.SP) THEN Throw(cpu, ram, "RangeError")
      ELSE IF operands[1].type = "reg"
        THEN Break(SetBase(raised, IntOf(operands[1].value), getInt32(ram, cpu.SP)), ram)
      ELSE Throw(raised, ram, "POP destination must be register")

\* case 'CALL'
ExecCALL(cpu, program, ram, operands) ==
  LET target == resolveOperand(operands[1], cpu, ram, program.labels)
      lowered == [cpu EXCEPT !.SP = JsSub(cpu.SP, I(4))]
  IN  IF ~target.ok THEN Throw(cpu, ram, target.msg)
      ELSE IF JsLt(target.v, Zero) \/ JsGe(target.v, I(Len(program.ast)))
        THEN Throw(cpu, ram, "Call target out of bounds")
      ELSE IF JsLt(lowered.SP, Zero) THEN Throw(lowered, ram, "Stack overflow on CALL")
      ELSE IF ~DataViewInRange(lowered.SP) THEN Throw(lowered, ram, "RangeError")
      ELSE Return([lowered EXCEPT !.IP = target.v],
                  setInt32(ram, lowered.SP, JsAdd(cpu.IP, One)))

\* case 'RET': SP is raised before the return address is checked
ExecRET(cpu, program, ram) ==
  LET returnAddr == getInt32(ram, cpu.SP)
      raised == [cpu EXCEPT !.SP = JsAdd(cpu.SP, I(4))]
  IN  IF JsGe(cpu.SP, I(RAM_SIZE - 4)) THEN Throw(cpu, ram, "Stack underflow on RET")
      ELSE IF ~DataViewInRange(cpu.SP) THEN Throw(cpu, ram, "RangeError")
      ELSE IF JsLt(returnAddr, Zero) \/ JsGe(returnAddr, I(Len(program.ast)))
        THEN Throw(raised, ram, "Invalid return address")
      ELSE Return([raised EXCEPT !.IP = returnAddr], ram)

\* SYS handing the syscall to the hook after its own switch: the hook sees
\* the CPU as the switch left it and is not reached when the switch throws;
\* the syscall property tells it from ExecSYS
ExecSYSHookLast(cpu, program, ram, operands, hook) ==
  LET syscall == resolveOperand(operands[1], cpu, ram, program.labels)
      exited == [cpu EXCEPT !.halted = TRUE]
      called(c) == IF hook = "host" THEN <<[syscall |-> syscall.v, cpu |-> c]>> ELSE <<>>
  IN  IF ~syscall.ok THEN Throw(cpu, ram, syscall.msg)
      ELSE IF syscall.v = I(1) \/ syscall.v = I(2)
        THEN [Break(cpu, ram) EXCEPT !.sys = called(cpu)]
      ELSE IF syscall.v = I(3) THEN [Break(exited, ram) EXCEPT !.sys = called(exited)]
      ELSE Throw(cpu, ram, "Unknown syscall")

\* case 'SYS': hook is "host" when the caller supplies onSys, "none" otherwise;
\* the hosts' hooks read the CPU and memory and append to their console
ExecSYS(cpu, program, ram, operands, hook) ==
  LET syscall == resolveOperand(operands[1], cpu, ram, program.labels)
      called == IF hook = "host" THEN <<[syscall |-> syscall.v, cpu |-> cpu]>> ELSE <<>>
  IN  IF ~syscall.ok THEN Throw(cpu, ram, syscall.msg)
      ELSE IF syscall.v = I(1) \/ syscall.v = I(2) THEN [Break(cpu, ram) EXCEPT !.sys = called]
      ELSE IF syscall.v = I(3)
        THEN [Break([cpu EXCEPT !.halted = TRUE], ram) EXCEPT !.sys = called]
      ELSE [Throw(cpu, ram, "Unknown syscall") EXCEPT !.sys = called]

BinaryOps == {"ADD", "SUB", "MUL", "AND", "OR", "XOR"}
UnaryOps == {"INC", "DEC", "NOT"}
ShiftOps == {"SHL", "SHR"}
CondJumps == {"JZ", "JNZ", "JC", "JNC", "JN", "JNN", "JG", "JGE", "JL", "JLE"}

\* the switch (op) of step
Dispatch(cpu, program, ram, instruction, hook) ==
  LET op == instruction.op
      operands == instruction.operands
  IN  CASE op = "NOP" -> Break(cpu, ram)
        [] op = "HALT" -> Return([cpu EXCEPT !.halted = TRUE], ram)
        [] op = "MOV" -> ExecMOV(cpu, program, ram, operands)
        [] op = "LOAD" -> ExecLOAD(cpu, program, ram, operands)
        [] op = "STORE" -> ExecSTORE(cpu, program, ram, operands)
        [] op = "LEA" -> ExecLEA(cpu, program, ram, operands)
        [] op \in BinaryOps -> ExecBinary(cpu, program, ram, op, operands)
        [] op = "DIV" -> ExecDIV(cpu, program, ram, operands)
        [] op \in UnaryOps -> ExecUnary(cpu, ram, op, operands)
        [] op \in ShiftOps -> ExecShift(cpu, program, ram, op, operands)
        [] op = "CMP" -> ExecCMP(cpu, program, ram, operands)
        [] op = "JMP" -> ExecJMP(cpu, program, ram, operands)
        [] op \in CondJumps -> ExecJcc(cpu, program, ram, op, operands)
        [] op = "PUSH" -> ExecPUSH(cpu, program, ram, operands)
        [] op = "POP" -> ExecPOP(cpu, ram, operands)
        [] op = "CALL" -> ExecCALL(cpu, program, ram, operands)
        [] op = "RET" -> ExecRET(cpu, program, ram)
        [] op = "SYS" -> ExecSYS(cpu, program, ram, operands, hook)
        [] OTHER -> Throw(cpu, ram, "Unimplemented instruction")

\* What a call of step leaves: the CPU and memory, whether it threw (fault)
\* and then the AsmError's line and message, the instruction index it
\* dispatched (-1 when it returned before the switch) and the hook calls.
NoFault(c, r, at, sys) ==
  [cpu |-> c, ram |-> r, fault |-> FALSE, line |-> 0, msg |-> "", at |-> at, sys |-> sys]

\* the catch clause reporting the 1-based position of the instruction in the
\* program instead of its source line; the fault property tells it from Rethrow
RethrowPosition(instruction, e, at) ==
  [cpu |-> e.cpu, ram |-> e.ram, fault |-> TRUE, line |-> at + 1, msg |-> e.msg,
   at |-> at, sys |-> e.sys]

\* catch (error) { throw new AsmError(instruction.line, error.message) }
Rethrow(instruction, e, at) ==
  [cpu |-> e.cpu, ram |-> e.ram, fault |-> TRUE, line |-> instruction.line, msg |-> e.msg,
   at |-> at, sys |-> e.sys]

\* cpu.IP++
IncIP(cpu) == [cpu EXCEPT !.IP = JsAdd(cpu.IP, One)]

\* how step leaves the try block: cpu.IP++ after a break, the catch after a throw
Leave(instruction, e, at) ==
  CASE e.out = "break" -> NoFault(IncIP(e.cpu), e.ram, at, e.sys)
    [] e.out = "return" -> NoFault(e.cpu, e.ram, at, e.sys)
    [] e.out = "throw" -> Rethrow(instruction, e, at)

\* the instruction at cpu.IP, dispatched
Execute(cpu, program, ram, hook, at) ==
  Leave(program.ast[at + 1], Dispatch(cpu, program, ram, program.ast[at + 1], hook), at)

\* step without its test of cpu.halted; the halted property tells it from step
stepWhenHalted(cpu, program, ram, hook) ==
  IF JsLt(cpu.IP, Zero) \/ JsGe(cpu.IP, I(Len(program.ast)))
    THEN NoFault([cpu EXCEPT !.halted = TRUE], ram, -1, <<>>)
  ELSE Execute(cpu, program, ram, hook, IntOf(cpu.IP))

step(cpu, program, ram, hook) ==
  IF cpu.halted THEN NoFault(cpu, ram, -1, <<>>)
  ELSE IF JsLt(cpu.IP, Zero) \/ JsGe(cpu.IP, I(Len(program.ast)))
    THEN NoFault([cpu EXCEPT !.halted = TRUE], ram, -1, <<>>)
  ELSE Execute(cpu, program, ram, hook, IntOf(cpu.IP))

\* ------------------------------------------------------------------------
\* run: the loop, one iteration per level.  steps counts the step calls that
\* returned, trace lists the instruction indices the loop handed to step.
\* A fault thrown by step leaves run at once: nothing in run catches it.
\* ------------------------------------------------------------------------
\* run while its loop runs: the cpu and memory it works on, steps, the
\* indices handed to step so far and the syscalls passed to onSys; the other
\* fields are what run will hand back
Running(cpu, ram, steps, trace, sys) ==
  [running |-> TRUE, cpu |-> cpu, ram |-> ram, steps |-> steps, trace |-> trace,
   sys |-> sys, fault |-> FALSE, line |-> 0, msg |-> "", at |-> -1,
   halted |-> cpu.halted, hitBreakpoint |-> FALSE]

RunReturn(st, hitBreakpoint) ==
  [st EXCEPT !.running = FALSE, !.halted = st.cpu.halted,
             !.hitBreakpoint = hitBreakpoint]

RunThrow(s, st) ==
  [st EXCEPT !.running = FALSE, !.cpu = s.cpu, !.ram = s.ram, !.fault = TRUE,
             !.line = s.line, !.msg = s.msg, !.at = s.at, !.halted = s.cpu.halted,
             !.trace = Append(st.trace, st.cpu.IP), !.sys = st.sys \o s.sys]

\* the breakpoint test reading the set as 1-based positions; the breakpoint
\* property tells it from AtBreakpoint
AtBreakpointPosition(breakpoints, cpu) == \E b \in breakpoints : I(b) = JsAdd(cpu.IP, One)

\* breakpoints.has(cpu.IP)
AtBreakpoint(breakpoints, cpu) == \E b \in breakpoints : I(b) = cpu.IP

\* the loop test with steps <= maxSteps; the step-budget property tells it
\* from LoopContinues
LoopContinuesInclusive(cpu, steps, maxSteps) == ~cpu.halted /\ steps <= maxSteps

\* while (!cpu.halted && steps < maxSteps)
LoopContinues(cpu, steps, maxSteps) == ~cpu.halted /\ steps < maxSteps

\* s is what step(cpu, program, ram, {onSys}) left: a fault leaves the loop
\* and run; otherwise steps++ and the loop goes on
AfterStep(s, st) ==
  IF s.fault THEN RunThrow(s, st)
  ELSE Running(s.cpu, s.ram, st.steps + 1, Append(st.trace, st.cpu.IP),
               st.sys \o s.sys)

\* the loop test and one pass through the loop body
LoopBody(st, program, maxSteps, breakpoints, hook) ==
  IF ~LoopContinues(st.cpu, st.steps, maxSteps)
    THEN RunReturn(st, FALSE)
  ELSE IF AtBreakpoint(breakpoints, st.cpu)
    THEN RunReturn(st, TRUE)
  ELSE AfterStep(step(st.cpu, program, st.ram, hook), st)

\* up to n passes in a row, stopping at the pass that leaves the loop; the
\* passes are split in halves to keep the evaluation shallow
RECURSIVE Passes(_, _, _, _, _, _)
Passes(st, n, program, maxSteps, breakpoints, hook) ==
  IF ~st.running \/ n = 0 THEN st
  ELSE IF n = 1 THEN LoopBody(st, program, maxSteps, breakpoints, hook)
  ELSE Passes(Passes(st, n \div 2, program, maxSteps, breakpoints, hook),
              n - (n \div 2), program, maxSteps, breakpoints, hook)

\* the while loop: passes until one leaves it, however many that takes
RECURSIVE runLoop(_, _, _, _, _, _)
runLoop(st, n, program, maxSteps, breakpoints, hook) ==
  IF ~st.running THEN st
  ELSE runLoop(Passes(st, n, program, maxSteps, breakpoints, hook), 2 * n,
               program, maxSteps, breakpoints, hook)

run(cpu, program, ram, maxSteps, breakpoints, hook) ==
  runLoop(Running(cpu, ram, 0, <<>>, <<>>), 1, program, maxSteps, breakpoints, hook)

\* ------------------------------------------------------------------------
\* Programs the host loads.  A Program is {ast, labels, dataSection}; the
\* k-th instruction (index k - 1) comes from source line 2k + 1.
\* ------------------------------------------------------------------------
LineOf(k) == 2 * k + 1

Program(code, labels) ==
  [ast |-> [k \in 1..Len(code) |-> Ins(code[k][1], code[k][2], LineOf(k))],
   labels |-> labels,
   dataSection |-> EmptyRam]

NoLabels == [l \in {} |-> Zero]

\* 32-bit operand values: the ends of the signed range, the values around 0
\* and a value with an empty low half
DestValues == {Zero, One, I(-1), MaxInt32, MinInt32, I(65536)}
SourceValues == {Zero, One, I(-1), MaxInt32, MinInt32, I(65536)}
ShiftValues == {Zero, One, I(31), I(32), I(-1)}

\* MOV R0,#a ; OP R0,#b
ImmediatePrograms ==
  { Program(<< <<"MOV", <<Reg(0), Imm(a)>> >>, <<op, <<Reg(0), Imm(b)>> >> >>, NoLabels) :
      a \in DestValues, b \in SourceValues, op \in {"ADD", "SUB", "MUL", "DIV"} }

\* MOV R0,#a ; MOV R1,#b ; OP R0,R1
RegisterPrograms ==
  { Program(<< <<"MOV", <<Reg(0), Imm(a)>> >>, <<"MOV", <<Reg(1), Imm(b)>> >>,
               <<op, <<Reg(0), Reg(1)>> >> >>, NoLabels) :
      a \in DestValues, b \in SourceValues, op \in {"AND", "OR", "XOR", "DIV", "CMP"} }

\* MOV R2,#a ; OP R2,#n
ShiftPrograms ==
  { Program(<< <<"MOV", <<Reg(2), Imm(a)>> >>, <<op, <<Reg(2), Imm(n)>> >> >>, NoLabels) :
      a \in DestValues, n \in ShiftValues, op \in ShiftOps }

\* MOV R3,#a ; OP R3
UnaryPrograms ==
  { Program(<< <<"MOV", <<Reg(3), Imm(a)>> >>, <<op, <<Reg(3)>> >> >>, NoLabels) :
      a \in DestValues, op \in UnaryOps }

\* loop: NOP ; JMP loop
LoopProgram ==
  Program(<< <<"NOP", <<>> >>, <<"JMP", <<Label("loop")>> >> >>, [l \in {"loop"} |-> Zero])

\* PUSH #5 ; PUSH R0 ; POP R1 ; CALL f ; HALT ; f: POP R2 ; PUSH R2 ; RET
StackProgram ==
  Program(<< <<"PUSH", <<Imm(I(5))>> >>, <<"PUSH", <<Reg(0)>> >>, <<"POP", <<Reg(1)>> >>,
             <<"CALL", <<Label("f")>> >>, <<"HALT", <<>> >>,
             <<"POP", <<Reg(2)>> >>, <<"PUSH", <<Reg(2)>> >>, <<"RET", <<>> >> >>,
          [l \in {"f"} |-> I(5)])

\* MOV R0,#7 ; SYS #1 ; SYS #3 ; INC R0 ; HALT
ExitProgram ==
  Program(<< <<"MOV", <<Reg(0), Imm(I(7))>> >>, <<"SYS", <<Imm(I(1))>> >>,
             <<"SYS", <<Imm(I(3))>> >>, <<"INC", <<Reg(0)>> >>, <<"HALT", <<>> >> >>, NoLabels)

\* STORE [R1+8],R0 after MOVs ; LOAD R2,[8] ; LEA R3,[R1] ; CMP ; JZ over NOP to HALT
MemoryProgram ==
  Program(<< <<"MOV", <<Reg(0), Imm(I(-2))>> >>, <<"STORE", <<MemInd(1, 8), Reg(0)>> >>,
             <<"LOAD", <<Reg(2), MemAbs(8)>> >>, <<"LEA", <<Reg(3), MemAbs(8)>> >>,
             <<"CMP", <<Reg(2), Reg(0)>> >>, <<"JZ", <<Label("end")>> >>,
             <<"NOP", <<>> >>, <<"HALT", <<>> >> >>,
          [l \in {"end"} |-> I(7)])

\* programs whose second or third instruction raises a runtime fault
FaultPrograms ==
  { Program(<< <<"MOV", <<Reg(SPIdx), Imm(Zero)>> >>, <<"PUSH", <<Reg(0)>> >> >>, NoLabels),
    Program(<< <<"MOV", <<Reg(SPIdx), Imm(Zero)>> >>, <<"CALL", <<Imm(Zero)>> >> >>, NoLabels),
    Program(<< <<"PUSH", <<Imm(I(99))>> >>, <<"RET", <<>> >> >>, NoLabels),
    Program(<< <<"PUSH", <<Imm(One)>> >>, <<"POP", <<Imm(I(5))>> >> >>, NoLabels),
    Program(<< <<"NOP", <<>> >>, <<"POP", <<Reg(0)>> >> >>, NoLabels),
    Program(<< <<"NOP", <<>> >>, <<"RET", <<>> >> >>, NoLabels),
    Program(<< <<"NOP", <<>> >>, <<"JMP", <<Imm(I(7))>> >> >>, NoLabels),
    Program(<< <<"NOP", <<>> >>, <<"CALL", <<Imm(I(-1))>> >> >>, NoLabels),
    Program(<< <<"NOP", <<>> >>, <<"SYS", <<Imm(I(9))>> >> >>, NoLabels),
    Program(<< <<"NOP", <<>> >>, <<"MOV", <<Imm(One), Reg(0)>> >> >>, NoLabels),
    Program(<< <<"NOP", <<>> >>, <<"LOAD", <<Reg(0), MemAbs(RAM_SIZE - 2)>> >> >>, NoLabels),
    Program(<< <<"NOP", <<>> >>, <<"STORE", <<MemInd(1, -4), Reg(0)>> >> >>, NoLabels),
    Program(<< <<"NOP", <<>> >>, <<"STORE", <<Reg(1), Reg(0)>> >> >>, NoLabels),
    Program(<< <<"MOV", <<Reg(SPIdx), Imm(I(-8))>> >>, <<"POP", <<Reg(0)>> >> >>, NoLabels),
    Program(<< <<"MOV", <<Reg(SPIdx), Imm(Zero)>> >>, <<"CALL", <<Imm(I(-1))>> >> >>, NoLabels),
    Program(<< <<"MOV", <<Reg(SPIdx), Imm(I(RAM_SIZE + 4))>> >>, <<"PUSH", <<Reg(0)>> >> >>,
            NoLabels) }

\* operations that leave the flag combinations the jumps test: Z; N,C; none;
\* Z,C; C,O; N,C,O; Z,C,O
FlagSetups ==
  { <<"SUB", Zero, Zero>>, <<"SUB", Zero, One>>, <<"ADD", One, One>>, <<"ADD", I(-1), One>>,
    <<"MUL", MaxInt32, MaxInt32>>, <<"MUL", MinInt32, MaxInt32>>,
    <<"MUL", MinInt32, MinInt32>> }

\* top: MOV R0,#a ; OP R0,#b ; Jcc top
JumpPrograms ==
  { Program(<< <<"MOV", <<Reg(0), Imm(f[2])>> >>, <<f[1], <<Reg(0), Imm(f[3])>> >>,
               <<j, <<Label("top")>> >> >>, [l \in {"top"} |-> Zero]) :
      f \in FlagSetups, j \in CondJumps }

\* MOV R0,#a ; OP R0,#b ; Jcc end ; end:   (the label follows the last
\* instruction, so its value is the instruction count)
TrailingLabelPrograms ==
  { Program(<< <<"MOV", <<Reg(0), Imm(f[2])>> >>, <<f[1], <<Reg(0), Imm(f[3])>> >>,
               <<j, <<Label("end")>> >> >>, [l \in {"end"} |-> I(3)]) :
      f \in {<<"SUB", Zero, Zero>>, <<"SUB", Zero, One>>, <<"ADD", One, One>>},
      j \in CondJumps \cup {"JMP", "CALL"} }

\* NOP ; HALT ; NOP
HaltProgram ==
  Program(<< <<"NOP", <<>> >>, <<"HALT", <<>> >>, <<"NOP", <<>> >> >>, NoLabels)

\* MOV SP,#s ; MOV R0,#v ; PUSH x1 .. PUSH xN ; POP R1 .. POP RN
BalanceProgram(s, v, pushes) ==
  Program(<< <<"MOV", <<Reg(SPIdx), Imm(s)>> >>, <<"MOV", <<Reg(0), Imm(v)>> >> >>
            \o [i \in 1..Len(pushes) |-> <<"PUSH", <<pushes[i]>> >>]
            \o [k \in 1..Len(pushes) |-> <<"POP", <<Reg(k)>> >>],
          NoLabels)

\* what a PUSH is given: immediates, a general register, SP itself
PushOperands == {Imm(I(5)), Imm(I(-1)), Reg(0), Reg(SPIdx)}

\* one and two pushes of every operand, and one sequence of three, from the
\* initial SP and from an SP that the pushes bring down to 0
StackBalancePrograms ==
  { BalanceProgram(s, MinInt32, pushes) :
      s \in {STACK_START, I(12)},
      pushes \in { <<x>> : x \in PushOperands }
                   \cup { <<x, y>> : x \in PushOperands, y \in PushOperands }
                   \cup { <<Imm(I(5)), Reg(0), Reg(SPIdx)>> } }

\* MOV R0,#7 ; SYS #n ; NOP
SysPrograms ==
  { Program(<< <<"MOV", <<Reg(0), Imm(I(7))>> >>, <<"SYS", <<Imm(I(n))>> >>,
               <<"NOP", <<>> >> >>, NoLabels) : n \in {-1, 0, 1, 2, 3, 4} }

\* MOV R0,#v ; MOV R1,#a ; STORE [R1],#-1 ; STORE [R1+2],R0 ; LOAD R2,[R1+2] ;
\* LOAD R3,[R1] : the second word overlaps the upper half of the first
StoreLoadPrograms ==
  { Program(<< <<"MOV", <<Reg(0), Imm(v)>> >>, <<"MOV", <<Reg(1), Imm(I(a))>> >>,
               <<"STORE", <<MemInd(1, 0), Imm(I(-1))>> >>,
               <<"STORE", <<MemInd(1, 2), Reg(0)>> >>,
               <<"LOAD", <<Reg(2), MemInd(1, 2)>> >>,
               <<"LOAD", <<Reg(3), MemInd(1, 0)>> >> >>, NoLabels) :
      v \in {Zero, I(258), I(-2), MinInt32}, a \in {0, RAM_SIZE - 6} }

\* programs whose second instruction reads or writes a word outside
\* [0, RAM_SIZE - 4]: through a memory operand, a STORE target, or the stack
\* after SP has been moved
OutOfRangePrograms ==
  { Program(<< <<"MOV", <<Reg(1), Imm(I(RAM_SIZE - 3))>> >>,
               <<"ADD", <<Reg(0), MemInd(1, 0)>> >> >>, NoLabels),
    Program(<< <<"MOV", <<Reg(1), Imm(I(-1))>> >>,
               <<"CMP", <<MemInd(1, 0), Reg(0)>> >> >>, NoLabels),
    Program(<< <<"MOV", <<Reg(0), Imm(I(-1))>> >>,
               <<"PUSH", <<MemAbs(RAM_SIZE - 1)>> >> >>, NoLabels),
    Program(<< <<"MOV", <<Reg(1), Imm(I(RAM_SIZE - 4))>> >>,
               <<"STORE", <<MemInd(1, 1), Imm(I(-1))>> >> >>, NoLabels),
    Program(<< <<"MOV", <<Reg(SPIdx), Imm(I(2))>> >>, <<"PUSH", <<Imm(I(-1))>> >> >>, NoLabels),
    Program(<< <<"MOV", <<Reg(SPIdx), Imm(I(RAM_SIZE + 2))>> >>,
               <<"PUSH", <<Imm(I(-1))>> >> >>, NoLabels),
    Program(<< <<"MOV", <<Reg(SPIdx), Imm(I(RAM_SIZE + 4))>> >>,
               <<"CALL", <<Imm(Zero)>> >> >>, NoLabels),
    Program(<< <<"MOV", <<Reg(SPIdx), Imm(I(RAM_SIZE - 2))>> >>,
               <<"POP", <<Reg(0)>> >> >>, NoLabels),
    Program(<< <<"MOV", <<Reg(SPIdx), Imm(I(-8))>> >>, <<"RET", <<>> >> >>, NoLabels) }

\* OP x,#1 and OP x for a first operand x that is not a register: the
\* immediate #5 and the memory operand [R1]; MOV, LOAD and LEA into #5
NonRegisterPrograms ==
  { Program(<< <<"MOV", <<Reg(5), Imm(I(6))>> >>, <<op, <<x, Imm(One)>> >> >>, NoLabels) :
      op \in {"ADD", "DIV", "SHL"}, x \in {Imm(I(5)), MemInd(1, 0)} }
  \cup { Program(<< <<"MOV", <<Reg(5), Imm(I(6))>> >>, <<"INC", <<x>> >> >>, NoLabels) :
           x \in {Imm(I(5)), MemInd(1, 0)} }
  \cup { Program(<< <<"MOV", <<Reg(5), Imm(I(6))>> >>, <<op, <<Imm(I(5)), MemAbs(8)>> >> >>,
                 NoLabels) : op \in {"MOV", "LOAD", "LEA"} }

\* the arithmetic and logic instructions, each with the operands that
\* follow its destination
AluOperations ==
  { <<"ADD", <<Imm(One)>> >>, <<"SUB", <<Imm(One)>> >>, <<"MUL", <<Imm(I(2))>> >>,
    <<"DIV", <<Imm(I(2))>> >>, <<"AND", <<Imm(I(-1))>> >>, <<"OR", <<Imm(One)>> >>,
    <<"XOR", <<Imm(One)>> >>, <<"SHL", <<Imm(One)>> >>, <<"SHR", <<Imm(One)>> >>,
    <<"SHR", <<Imm(Zero)>> >>, <<"INC", <<>> >>, <<"DEC", <<>> >>, <<"NOT", <<>> >> }

\* MOV dst,#a ; OP dst[,#b] with dst one of SP and BP and a at an end of the
\* signed range or -1
AluTargetPrograms ==
  { Program(<< <<"MOV", <<dst, Imm(a)>> >>, <<o[1], <<dst>> \o o[2]>> >>, NoLabels) :
      dst \in {Reg(SPIdx), Reg(BPIdx)}, a \in {MaxInt32, MinInt32, I(-1)},
      o \in AluOperations }

\* JMP main ; f: INC R0 ; RET ; main: CALL f, followed by the instructions
\* of rest: with none, CALL is the last instruction
CallProgram(rest) ==
  Program(<< <<"JMP", <<Label("main")>> >>, <<"INC", <<Reg(0)>> >>, <<"RET", <<>> >>,
             <<"CALL", <<Label("f")>> >> >> \o rest,
          [l \in {"f", "main"} |-> IF l = "f" THEN One ELSE I(3)])

CallPrograms == {CallProgram(<<>>), CallProgram(<< <<"NOP", <<>> >> >>)}

\* the 32-bit values compared, with both ends of the signed range
CompareValues == {MinInt32, I(-1), Zero, One, MaxInt32}

\* the jumps that read the outcome of a signed comparison
CompareJumps == {"JG", "JGE", "JL", "JLE", "JZ"}

\* top: MOV R0,#a ; CMP R0,#b ; Jcc top
ComparePrograms ==
  { Program(<< <<"MOV", <<Reg(0), Imm(a)>> >>, <<"CMP", <<Reg(0), Imm(b)>> >>,
               <<j, <<Label("top")>> >> >>, [l \in {"top"} |-> Zero]) :
      a \in CompareValues, b \in CompareValues, j \in CompareJumps }

\* the address operands LEA accepts: label, [label], [addr], [Rk], [Rk+off],
\* [Rk-off]
LeaSources ==
  {Label("end"), MemLabel("end"), MemAbs(8), MemInd(1, 0), MemInd(1, 4), MemInd(1, -4),
   MemInd(SPIdx, 4)}

\* R1 = 40 and the zero flag set, then LEA into a general register or SP
LeaPrograms ==
  { Program(<< <<"MOV", <<Reg(1), Imm(I(40))>> >>, <<"CMP", <<Reg(1), Reg(1)>> >>,
               <<"LEA", <<dst, src>> >>, <<"HALT", <<>> >> >>,
            [l \in {"end"} |-> I(3)]) : dst \in {Reg(0), Reg(SPIdx)}, src \in LeaSources }

Programs ==
  LeaPrograms \cup ComparePrograms \cup CallPrograms \cup AluTargetPrograms \cup ImmediatePrograms \cup RegisterPrograms \cup ShiftPrograms \cup UnaryPrograms
    \cup FaultPrograms \cup JumpPrograms \cup TrailingLabelPrograms
    \cup StackBalancePrograms \cup SysPrograms \cup StoreLoadPrograms
    \cup OutOfRangePrograms \cup NonRegisterPrograms
    \cup {LoopProgram, StackProgram, ExitProgram, MemoryProgram, HaltProgram}

\* ------------------------------------------------------------------------
\* The state of the host: the CPU, the memory, the Program and the hook it
\* passes to step and run, and what its last call returned (last).  source
\* is the text last given to assemble (its lines), asm what that call
\* returned or threw, first the text and outcome of the host's first call of
\* assemble, repeated whether the last call of assemble was a later call
\* given the text of the first.  pairs are the (CPU, memory) pairs of a host
\* that keeps two of them for one Program, alone what each of the two is
\* after its own steps only.  session is the account of a host that calls
\* run several times in a row: where it started, the budgets it has given
\* and the step counts it got back.  grade is the challenge last given to
\* runChallenge and the GradeResult it returned.  debuggerState is the
\* debugger's state beside the CPU, memory and Program: the breakpoint lines
\* and the executable lines.
\* ------------------------------------------------------------------------
VARIABLES cpu, ram, program, onSys, last, source, asm, first, repeated, pairs, alone,
          session, grade, debuggerState

vars == <<cpu, ram, program, onSys, last, source, asm, first, repeated, pairs, alone,
          session, grade, debuggerState>>

\* the variables of the hosts that call run in a row, grade a challenge or
\* keep breakpoints; the other hosts leave them alone
elsewhere == <<session, grade, debuggerState>>

NoSession == [calls |-> 0, budget |-> 0, steps |-> 0, fault |-> FALSE]
NotGraded == [graded |-> FALSE]
NoDebugger == [breakpoints |-> {}, executableLines |-> {}]

NotElsewhere == session = NoSession /\ grade = NotGraded /\ debuggerState = NoDebugger

\* the variables of the host with two pairs; the other hosts leave them alone
twoPairs == <<pairs, alone>>

NoPairs == pairs = <<>> /\ alone = <<>>

\* ------------------------------------------------------------------------
\* Strings.  A JS string is the sequence of its characters, each a
\* one-character string; a source text is the sequence of its lines
\* (source.split('\n')).  Names kept in the Program (opcodes, label names)
\* are strings, built from their characters by Str.
\* ------------------------------------------------------------------------
LowerChars == <<"a", "b", "c", "d", "e", "f", "g", "h", "i", "j", "k", "l", "m",
                "n", "o", "p", "q", "r", "s", "t", "u", "v", "w", "x", "y", "z">>
UpperChars == <<"A", "B", "C", "D", "E", "F", "G", "H", "I", "J", "K", "L", "M",
                "N", "O", "P", "Q", "R", "S", "T", "U", "V", "W", "X", "Y", "Z">>
DigitChars == <<"0", "1", "2", "3", "4", "5", "6", "7", "8", "9">>

\* the characters \s matches in the sources
Whitespace == {" ", "\t"}

\* the characters of the sources in code order from 32 (space) to 126 (~);
\* no source has a backslash (92) or a backquote (96)
Ascii ==
  <<" ", "!", "\"", "#", "$", "%", "&", "'", "(", ")", "*", "+", ",", "-", ".", "/">>
  \o DigitChars \o <<":", ";", "<", "=", ">", "?", "@">> \o UpperChars
  \o <<"[", "", "]", "^", "_", "">> \o LowerChars \o <<"{", "|", "}", "~">>

\* the position of character c in the table t (0 when it is not there)
PosIn(t, c) == IF \E k \in DOMAIN t : t[k] = c THEN CHOOSE k \in DOMAIN t : t[k] = c ELSE 0

\* str.charCodeAt(j)
charCodeAt(c) == 31 + PosIn(Ascii, c)

toUpperCase(s) ==
  [i \in DOMAIN s |-> IF PosIn(LowerChars, s[i]) > 0 THEN UpperChars[PosIn(LowerChars, s[i])]
                      ELSE s[i]]

toLowerCase(s) ==
  [i \in DOMAIN s |-> IF PosIn(UpperChars, s[i]) > 0 THEN LowerChars[PosIn(UpperChars, s[i])]
                      ELSE s[i]]

\* the string of a character sequence
RECURSIVE Str(_)
Str(s) == IF s = <<>> THEN "" ELSE Head(s) \o Str(Tail(s))

\* s.trim()
trim(s) ==
  LET between(kept) ==
        IF kept = {} THEN <<>>
        ELSE SubSeq(s, CHOOSE i \in kept : \A j \in kept : i <= j,
                       CHOOSE i \in kept : \A j \in kept : i >= j)
  IN  between({i \in DOMAIN s : s[i] \notin Whitespace})

\* s.startsWith(p)
startsWith(s, p) == Len(s) >= Len(p) /\ SubSeq(s, 1, Len(p)) = p

\* s.indexOf(c) + 1: the position of the first c, 0 when s has none
indexOf(s, c) ==
  IF \E i \in DOMAIN s : s[i] = c
    THEN CHOOSE i \in DOMAIN s : s[i] = c /\ \A j \in 1..(i - 1) : s[j] # c
  ELSE 0

\* s.split(','), and s.split(/\s/) with seps the whitespace: the pieces
\* between the separators, empty pieces included
split(s, seps) ==
  LET pieces(cuts) ==
        [k \in 1..(Cardinality(cuts) - 1) |->
           SubSeq(s, (CHOOSE p \in cuts : Cardinality({q \in cuts : q < p}) = k - 1) + 1,
                     (CHOOSE p \in cuts : Cardinality({q \in cuts : q < p}) = k) - 1)]
  IN  pieces({0, Len(s) + 1} \cup {i \in DOMAIN s : s[i] \in seps})

\* s.split(/\s+/) of a trimmed, non-empty s: a run of whitespace is one separator
splitWords(s) == SelectSeq(split(s, Whitespace), LAMBDA piece : piece # <<>>)

\* tokens.slice(1).join(' ')
RECURSIVE joinRest(_, _)
joinRest(tokens, from) ==
  IF from > Len(tokens) THEN <<>>
  ELSE IF from = Len(tokens) THEN tokens[from]
  ELSE tokens[from] \o <<" ">> \o joinRest(tokens, from + 1)

\* the value of a run of decimal digits
RECURSIVE Decimal(_)
Decimal(ds) ==
  IF ds = <<>> THEN 0
  ELSE 10 * Decimal(SubSeq(ds, 1, Len(ds) - 1)) + PosIn(DigitChars, ds[Len(ds)]) - 1

\* the length of the longest run of digits s begins with
LeadingDigits(s) ==
  IF \A i \in DOMAIN s : PosIn(DigitChars, s[i]) > 0 THEN Len(s)
  ELSE (CHOOSE i \in DOMAIN s :
          /\ PosIn(DigitChars, s[i]) = 0
          /\ \A j \in 1..(i - 1) : PosIn(DigitChars, s[j]) > 0) - 1

\* parseInt(s, 10): leading whitespace, an optional sign, then the longest
\* run of digits; whatever follows the digits is ignored; NaN without a digit
parseInt(s) ==
  LET value(negative, body) ==
        LET number(n) ==
              IF n = 0 THEN [nan |-> TRUE, v |-> Zero]
              ELSE [nan |-> FALSE,
                    v |-> IF negative THEN I(0 - Decimal(SubSeq(body, 1, n)))
                          ELSE I(Decimal(SubSeq(body, 1, n)))]
        IN  number(LeadingDigits(body))
      parse(t) ==
        IF t # <<>> /\ t[1] \in {"+", "-"} THEN value(t[1] = "-", Tail(t))
        ELSE value(FALSE, t)
  IN  parse(trim(s))

\* /^[a-zA-Z_][a-zA-Z0-9_]*$/.test(s)
IsIdentifier(s) ==
  /\ s # <<>>
  /\ PosIn(DigitChars, s[1]) = 0
  /\ \A i \in DOMAIN s :
       PosIn(LowerChars, s[i]) > 0 \/ PosIn(UpperChars, s[i]) > 0
         \/ PosIn(DigitChars, s[i]) > 0 \/ s[i] = "_"

\* the names every object literal inherits from Object.prototype: `name in
\* labels` and `labels[name] !== undefined` hold for them in an empty table
ObjectPrototype ==
  {"constructor", "toString", "toLocaleString", "valueOf", "hasOwnProperty",
   "isPrototypeOf", "propertyIsEnumerable", "__proto__", "__defineGetter__",
   "__defineSetter__", "__lookupGetter__", "__lookupSetter__"}

\* name in labels
HasProperty(labels, name) == name \in DOMAIN labels \/ name \in ObjectPrototype

\* ------------------------------------------------------------------------
\* parseOperand
\* ------------------------------------------------------------------------
REGISTERS ==
  [name \in {"R0", "R1", "R2", "R3", "R4", "R5", "R6", "R7", "SP", "BP"} |->
     CASE name = "SP" -> SPIdx
       [] name = "BP" -> BPIdx
       [] OTHER -> CHOOSE i \in RegIdx : name = "R" \o DigitChars[i + 1]]

Parsed(operand) == [ok |-> TRUE, operand |-> operand, msg |-> ""]
Rejected(m) == [ok |-> FALSE, operand |-> Imm(Zero), msg |-> m]

\* inner.match(/^(R[0-7]|SP|BP)\s*([+-])\s*(\d+)$/i) of a trimmed inner: a
\* register, a sign and a run of digits, whitespace allowed around the sign
OffsetMatch(inner) ==
  LET around(at) ==
        LET match(reg, digits) ==
              IF /\ at > 0
                 /\ reg \in DOMAIN REGISTERS
                 /\ digits # <<>>
                 /\ LeadingDigits(digits) = Len(digits)
                THEN [matched |-> TRUE, reg |-> reg, sign |-> inner[at],
                      offsetValue |-> I(Decimal(digits))]
              ELSE [matched |-> FALSE, reg |-> "", sign |-> "", offsetValue |-> Zero]
        IN  match(Str(toUpperCase(trim(SubSeq(inner, 1, at - 1)))),
                  trim(SubSeq(inner, at + 1, Len(inner))))
  IN  around(IF indexOf(inner, "+") = 0 THEN indexOf(inner, "-")
             ELSE IF indexOf(inner, "-") = 0 THEN indexOf(inner, "+")
             ELSE IF indexOf(inner, "+") < indexOf(inner, "-") THEN indexOf(inner, "+")
             ELSE indexOf(inner, "-"))

parseOperand(raw) ==
  LET memory(inner) ==
        LET kind(offsetMatch, upperInner, addr) ==
              IF offsetMatch.matched
                THEN Parsed([type |-> "mem", value |-> I(REGISTERS[offsetMatch.reg]),
                             name |-> "",
                             offset |-> IF offsetMatch.sign = "+" THEN offsetMatch.offsetValue
                                        ELSE JsNeg(offsetMatch.offsetValue),
                             indirect |-> TRUE])
              ELSE IF upperInner \in DOMAIN REGISTERS
                THEN Parsed(MemInd(REGISTERS[upperInner], 0))
              ELSE IF ~addr.nan
                THEN IF JsLt(addr.v, Zero) \/ JsGe(addr.v, I(RAM_SIZE))
                       THEN Rejected("Address out of bounds")
                     ELSE Parsed(MemAbs(IntOf(addr.v)))
              ELSE Parsed(MemLabel(Str(inner)))
        IN  IF inner = <<>> THEN Rejected("Empty memory reference []")
            ELSE kind(OffsetMatch(inner), Str(toUpperCase(inner)), parseInt(inner))
      immediate(token, value) ==
        IF value.nan THEN Rejected("Invalid immediate value: " \o Str(token))
        ELSE Parsed(Imm(value.v))
      plain(token, upperToken, num) ==
        IF upperToken \in DOMAIN REGISTERS THEN Parsed(Reg(REGISTERS[upperToken]))
        ELSE IF ~num.nan THEN Parsed(Imm(num.v))
        ELSE IF IsIdentifier(token) THEN Parsed(Label(Str(token)))
        ELSE Rejected("Invalid operand: " \o Str(token))
      parse(token) ==
        IF token = <<>> THEN Rejected("Empty operand")
        ELSE IF token[1] = "#" THEN immediate(token, parseInt(Tail(token)))
        ELSE IF token[1] = "[" /\ token[Len(token)] = "]"
          THEN memory(trim(SubSeq(token, 2, Len(token) - 1)))
        ELSE plain(token, Str(toUpperCase(token)), parseInt(token))
  IN  parse(trim(IF raw # <<>> /\ raw[Len(raw)] = "," THEN SubSeq(raw, 1, Len(raw) - 1)
                 ELSE raw))

\* ------------------------------------------------------------------------
\* assemble
\* ------------------------------------------------------------------------
\* new Uint8Array(8192)
DATA_SIZE == 8192

validOps ==
  {"NOP", "HALT", "MOV", "LOAD", "STORE", "LEA", "ADD", "SUB", "MUL", "DIV", "INC", "DEC",
   "AND", "OR", "XOR", "NOT", "SHL", "SHR", "CMP", "JMP", "JZ", "JNZ", "JC", "JNC", "JN",
   "JNN", "JG", "JGE", "JL", "JLE", "PUSH", "POP", "CALL", "RET", "SYS"}

\* expectedCounts of validateInstructionOperands
expectedCounts ==
  [op \in validOps |->
     IF op \in {"NOP", "HALT", "RET"} THEN 0
     ELSE IF op \in {"INC", "DEC", "NOT", "JMP", "JZ", "JNZ", "JC", "JNC", "JN", "JNN", "JG",
                     "JGE", "JL", "JLE", "PUSH", "POP", "CALL", "SYS"} THEN 1
     ELSE 2]

\* validateInstructionOperands accepting an instruction that has fewer
\* operands than the table says; the arity property tells it from
\* validateInstructionOperands
validateAtMost(op, operands) ==
  IF op \notin DOMAIN expectedCounts THEN "Unknown instruction: " \o op
  ELSE IF expectedCounts[op] < Len(operands)
    THEN op \o " expects " \o DigitChars[expectedCounts[op] + 1] \o " operand(s), got "
            \o DigitChars[Len(operands) + 1]
  ELSE ""

\* the message validateInstructionOperands throws, "" when it returns
validateInstructionOperands(op, operands) ==
  IF op \notin DOMAIN expectedCounts THEN "Unknown instruction: " \o op
  ELSE IF expectedCounts[op] # Len(operands)
    THEN op \o " expects " \o DigitChars[expectedCounts[op] + 1] \o " operand(s), got "
            \o DigitChars[Len(operands) + 1]
  ELSE ""

\* what assemble has built so far, and the error it has thrown (line 0: none)
Failed(st, lineNum, m) == [st EXCEPT !.line = lineNum, !.msg = m]

\* is the line skipped as empty or as a comment
IsBlank(trimmed) ==
  trimmed = <<>> \/ startsWith(trimmed, <<";">>) \/ startsWith(trimmed, <<"/", "/">>)

\* parts.slice(1).join(' ').split(',').map(v => parseInt(v.trim(), 10))
ParseValues(parts) ==
  LET each(pieces) == [k \in DOMAIN pieces |-> parseInt(trim(pieces[k]))]
  IN  each(split(joinRest(parts, 2), {","}))

\* the four bytes of val, most significant first; the data property tells it
\* from WordBytes
WordBytesBigEndian(val) ==
  LET bytes(u) == <<u.hi \div 256, u.hi % 256, u.lo \div 256, u.lo % 256>>
  IN  bytes(ToUint32(val))

\* val & 0xFF, (val >> 8) & 0xFF, (val >> 16) & 0xFF, (val >> 24) & 0xFF
WordBytes(val) ==
  LET bytes(u) == <<u.lo % 256, u.lo \div 256, u.hi % 256, u.hi \div 256>>
  IN  bytes(ToUint32(val))

\* the loop over the values of .WORD: four bytes each, while they fit
RECURSIVE EmitWords(_, _, _)
EmitWords(st, values, lineNum) ==
  IF values = <<>> THEN st
  ELSE IF Len(st.data) + 4 > DATA_SIZE THEN Failed(st, lineNum, "Data section overflow")
  ELSE EmitWords([st EXCEPT !.data = @ \o WordBytes(Head(values).v)], Tail(values), lineNum)

\* .WORD and 'label: .WORD': parse the values, then emit them
DirectiveWORD(st, parts, lineNum) ==
  LET emit(values) ==
        IF \E k \in DOMAIN values : values[k].nan
          THEN Failed(st, lineNum, "Invalid .WORD value")
        ELSE EmitWords(st, values, lineNum)
  IN  IF Len(parts) < 2 THEN Failed(st, lineNum, ".WORD requires values")
      ELSE emit(ParseValues(parts))

\* .BYTE: one byte per value, each in 0..255
DirectiveBYTE(st, parts, lineNum) ==
  LET emit(values) ==
        IF \E k \in DOMAIN values :
             values[k].nan \/ JsLt(values[k].v, Zero) \/ JsGt(values[k].v, I(255))
          THEN Failed(st, lineNum, "Invalid .BYTE value")
        ELSE IF Len(st.data) + Len(values) > DATA_SIZE
          THEN Failed(st, lineNum, "Data section overflow")
        ELSE [st EXCEPT !.data = @ \o [k \in DOMAIN values |-> values[k].v.lo]]
  IN  IF Len(parts) < 2 THEN Failed(st, lineNum, ".BYTE requires values")
      ELSE emit(ParseValues(parts))

\* /\.STRING\s+"([^"]*)"/i matched at position p of t: the characters between
\* the quotes
StringMatchAt(t, p) ==
  LET quoted(rest) ==
        LET closed(open, body) ==
              IF /\ open >= 2
                 /\ \A j \in 1..(open - 1) : rest[j] \in Whitespace
                 /\ indexOf(body, "\"") > 0
                THEN [matched |-> TRUE, str |-> SubSeq(body, 1, indexOf(body, "\"") - 1)]
              ELSE [matched |-> FALSE, str |-> <<>>]
        IN  closed(indexOf(rest, "\""), SubSeq(rest, indexOf(rest, "\"") + 1, Len(rest)))
  IN  IF /\ p + 6 <= Len(t)
         /\ toUpperCase(SubSeq(t, p, p + 6)) = <<".", "S", "T", "R", "I", "N", "G">>
        THEN quoted(SubSeq(t, p + 7, Len(t)))
      ELSE [matched |-> FALSE, str |-> <<>>]

\* .STRING: the characters of the first match and a NUL
DirectiveSTRING(st, trimmed, lineNum) ==
  LET emit(starts) ==
        LET bytes(str) ==
              IF Len(st.data) + Len(str) + 1 > DATA_SIZE
                THEN Failed(st, lineNum, "Data section overflow")
              ELSE [st EXCEPT !.data = @ \o [j \in DOMAIN str |-> charCodeAt(str[j]) % 256]
                                         \o <<0>>]
        IN  IF starts = {} THEN Failed(st, lineNum, "Invalid .STRING format")
            ELSE bytes(StringMatchAt(trimmed, CHOOSE p \in starts : \A q \in starts : p <= q).str)
  IN  emit({p \in DOMAIN trimmed : StringMatchAt(trimmed, p).matched})

\* pass 1, a line that begins with '.'
Directive(st, trimmed, lineNum) ==
  LET org(orgAddr) ==
        IF orgAddr.nan \/ JsLt(orgAddr.v, Zero) THEN Failed(st, lineNum, "Invalid .ORG address")
        ELSE [st EXCEPT !.currentAddress = orgAddr.v]
      switch(parts, directive) ==
        CASE directive = ".DATA" -> [st EXCEPT !.inDataSection = TRUE]
          [] directive = ".TEXT" ->
               [st EXCEPT !.inDataSection = FALSE, !.textStart = st.currentAddress]
          [] directive = ".ORG" ->
               IF Len(parts) < 2 THEN Failed(st, lineNum, ".ORG requires address")
               ELSE org(parseInt(parts[2]))
          [] directive = ".WORD" ->
               IF st.inDataSection THEN DirectiveWORD(st, parts, lineNum) ELSE st
          [] directive = ".BYTE" ->
               IF st.inDataSection THEN DirectiveBYTE(st, parts, lineNum) ELSE st
          [] directive = ".STRING" ->
               IF st.inDataSection THEN DirectiveSTRING(st, trimmed, lineNum) ELSE st
          [] OTHER -> Failed(st, lineNum, "Unknown directive: " \o directive)
      split1(parts) == switch(parts, Str(toUpperCase(parts[1])))
  IN  split1(splitWords(trimmed))

\* ast.push({op, operands: [], line}); currentAddress++
PushInstruction(st, op, lineNum) ==
  [st EXCEPT !.ast = Append(@, Ins(op, <<>>, lineNum)), !.currentAddress = JsAdd(@, One)]

\* the first token of a line, in upper case
Opcode(text) == Str(toUpperCase(splitWords(text)[1]))

\* the label table with labelName bound to v
Bind(labels, labelName, v) ==
  [l \in DOMAIN labels \cup {labelName} |-> IF l = labelName THEN v ELSE labels[l]]

\* pass 1, a line that contains ':'
LabelDefinition(st, trimmed, lineNum) ==
  LET inline(bound, afterColon) ==
        IF IsBlank(afterColon) THEN bound
        ELSE IF startsWith(afterColon, <<".", "W", "O", "R", "D">>)
          THEN DirectiveWORD(bound, splitWords(afterColon), lineNum)
        ELSE IF ~st.inDataSection THEN PushInstruction(bound, Opcode(afterColon), lineNum)
        ELSE bound
      define(labelName, name, afterColon) ==
        IF labelName = <<>> THEN Failed(st, lineNum, "Empty label name")
        ELSE IF ~IsIdentifier(labelName)
          THEN Failed(st, lineNum, "Invalid label name: " \o name)
        ELSE IF HasProperty(st.labels, name)
          THEN Failed(st, lineNum, "Duplicate label: " \o name)
        ELSE inline([st EXCEPT !.labels = Bind(@, name, IF st.inDataSection
                                                          THEN I(Len(st.data))
                                                        ELSE st.currentAddress)],
                    afterColon)
      cut(labelName, afterColon) == define(labelName, Str(labelName), afterColon)
      at(colonIndex) ==
        cut(trim(SubSeq(trimmed, 1, colonIndex - 1)),
            trim(SubSeq(trimmed, colonIndex + 1, Len(trimmed))))
  IN  at(indexOf(trimmed, ":"))

\* the body of the loop of pass 1 for one line
Pass1Line(st, line, lineNum) ==
  LET instruction(op) ==
        IF op \notin validOps THEN Failed(st, lineNum, "Unknown instruction: " \o op)
        ELSE PushInstruction(st, op, lineNum)
      body(trimmed) ==
        IF IsBlank(trimmed) THEN st
        ELSE IF trimmed[1] = "." THEN Directive(st, trimmed, lineNum)
        ELSE IF indexOf(trimmed, ":") > 0 THEN LabelDefinition(st, trimmed, lineNum)
        ELSE IF st.inDataSection THEN st
        ELSE instruction(Opcode(trimmed))
  IN  body(trim(line))

\* the part of a line pass 2 parses as an instruction (<<>>: the line is skipped)
InstructionPart(trimmed) ==
  LET after(afterColon) == IF IsBlank(afterColon) THEN <<>> ELSE afterColon
  IN  IF IsBlank(trimmed) \/ trimmed[1] = "." THEN <<>>
      ELSE IF indexOf(trimmed, ":") = 0 THEN trimmed
      ELSE after(trim(SubSeq(trimmed, indexOf(trimmed, ":") + 1, Len(trimmed))))

\* the body of the loop of pass 2 for one line
Pass2Line(st, line, lineNum) ==
  LET store(op, operands, count) ==
        IF count # "" THEN Failed(st, lineNum, count)
        ELSE [st EXCEPT !.ast[st.astIndex + 1].operands = operands, !.astIndex = @ + 1]
      check(op, parsed) ==
        IF \E k \in DOMAIN parsed : ~parsed[k].ok
          THEN Failed(st, lineNum,
                      parsed[CHOOSE k \in DOMAIN parsed :
                               ~parsed[k].ok /\ \A j \in 1..(k - 1) : parsed[j].ok].msg)
        ELSE store(op, [k \in DOMAIN parsed |-> parsed[k].operand],
                   validateInstructionOperands(op, [k \in DOMAIN parsed |-> parsed[k].operand]))
      operands(op, operandTokens) ==
        check(op, [k \in DOMAIN operandTokens |-> parseOperand(operandTokens[k])])
      tokens(parts) ==
        operands(Str(toUpperCase(parts[1])),
                 SelectSeq(split(joinRest(parts, 2), {","}), LAMBDA t : trim(t) # <<>>))
      body(instructionPart) ==
        IF instructionPart = <<>> THEN st
        ELSE IF st.astIndex >= Len(st.ast)
          THEN Failed(st, lineNum, "Internal assembler error")
        ELSE tokens(splitWords(instructionPart))
  IN  body(InstructionPart(trim(line)))

\* a loop over the lines: the body on each line in turn until one throws
RECURSIVE Pass(_, _, _, _)
Pass(st, lines, lineNum, second) ==
  IF lineNum > Len(lines) \/ st.line # 0 THEN st
  ELSE IF second THEN Pass(Pass2Line(st, lines[lineNum], lineNum), lines, lineNum + 1, second)
  ELSE Pass(Pass1Line(st, lines[lineNum], lineNum), lines, lineNum + 1, second)

\* "Validate all labels are resolved": the first operand in program order
\* that names a label the table does not have
UnresolvedLabels(st) ==
  LET throw(instruction, operand) ==
        Failed(st, instruction.line,
               IF operand.type = "label" THEN "Undefined label: " \o operand.name
               ELSE "Undefined label in memory reference: " \o operand.name)
      report(places) ==
        LET earliest(p) == throw(st.ast[p[1]], st.ast[p[1]].operands[p[2]])
        IN  IF places = {} THEN st
            ELSE earliest(CHOOSE p \in places :
                         \A q \in places : p[1] < q[1] \/ (p[1] = q[1] /\ p[2] <= q[2]))
  IN  IF st.line # 0 THEN st
      ELSE report({p \in (DOMAIN st.ast) \X (1..2) :
                     /\ p[2] <= Len(st.ast[p[1]].operands)
                     /\ IsString(st.ast[p[1]].operands[p[2]])
                     /\ st.ast[p[1]].operands[p[2]].type \in {"label", "mem"}
                     /\ ~HasProperty(st.labels, st.ast[p[1]].operands[p[2]].name)})

\* what assemble has when it starts
Start(labels) ==
  [ast |-> <<>>, labels |-> labels, data |-> <<>>, currentAddress |-> Zero,
   inDataSection |-> FALSE, textStart |-> Zero, astIndex |-> 0, line |-> 0, msg |-> ""]

\* the Program assemble returns (ok), or the AsmError it throws (line, msg)
Outcome(st) ==
  IF st.line # 0
    THEN [ok |-> FALSE, line |-> st.line, msg |-> st.msg, ast |-> <<>>,
          labels |-> NoLabels, dataSection |-> EmptyRam, textStart |-> Zero]
  ELSE [ok |-> TRUE, line |-> 0, msg |-> "", ast |-> st.ast, labels |-> st.labels,
        dataSection |-> [a \in {k - 1 : k \in {j \in DOMAIN st.data : st.data[j] # 0}} |->
                           st.data[a + 1]],
        textStart |-> st.textStart]

\* assemble keeping the label table of the Program the host holds instead of
\* starting from an empty one; the determinism property tells it from assemble
assembleSharedLabels(lines) ==
  Outcome(UnresolvedLabels(Pass(Pass(Start(program.labels), lines, 1, FALSE), lines, 1, TRUE)))

assemble(lines) ==
  Outcome(UnresolvedLabels(Pass(Pass(Start(NoLabels), lines, 1, FALSE), lines, 1, TRUE)))

\* ------------------------------------------------------------------------
\* The grader's lookup of an address
\* ------------------------------------------------------------------------
HexDigits == DigitChars \o <<"a", "b", "c", "d", "e", "f">>

\* the value of a run of hexadecimal digits
RECURSIVE Hex(_)
Hex(ds) ==
  IF ds = <<>> THEN 0
  ELSE 16 * Hex(SubSeq(ds, 1, Len(ds) - 1))
         + PosIn(HexDigits, toLowerCase(<<ds[Len(ds)]>>)[1]) - 1

\* resolveAddress: the number it returns, or thrown; inherited when the
\* lower-cased name is a property the label table inherits (the value
\* returned is then not a number)
resolveAddress(addrStr, labels) ==
  LET number(n) == [thrown |-> FALSE, inherited |-> FALSE, value |-> n]
      lookup(labelName, offset) ==
        IF labelName \in DOMAIN labels THEN number(JsAdd(labels[labelName], offset))
        ELSE IF labelName \in ObjectPrototype
          THEN [thrown |-> FALSE, inherited |-> TRUE, value |-> Zero]
        ELSE [thrown |-> TRUE, inherited |-> FALSE, value |-> Zero]
      offsetForm(addr, name, digits) ==
        IF IsIdentifier(name) /\ digits # <<>> /\ LeadingDigits(digits) = Len(digits)
          THEN lookup(Str(toLowerCase(name)), I(Decimal(digits)))
        ELSE lookup(Str(toLowerCase(addr)), Zero)
      resolve(addr) ==
        IF addr # <<>> /\ LeadingDigits(addr) = Len(addr) THEN number(I(Decimal(addr)))
        ELSE IF /\ Len(addr) > 2
                /\ addr[1] = "0" /\ addr[2] \in {"x", "X"}
                /\ \A i \in 3..Len(addr) : PosIn(HexDigits, toLowerCase(<<addr[i]>>)[1]) > 0
          THEN number(I(Hex(SubSeq(addr, 3, Len(addr)))))
        ELSE IF indexOf(addr, "+") > 0
          THEN offsetForm(addr, trim(SubSeq(addr, 1, indexOf(addr, "+") - 1)),
                          trim(SubSeq(addr, indexOf(addr, "+") + 1, Len(addr))))
        ELSE lookup(Str(toLowerCase(addr)), Zero)
  IN  resolve(trim(addrStr))

\* ------------------------------------------------------------------------
\* Source texts the host assembles
\* ------------------------------------------------------------------------
\* an instruction line, a trailing comment (none for the last) and the
\* instruction the line stands for
CommentCases ==
  { <<<<"M", "O", "V", " ", "R", "0", ",", " ", "#", "1">>, <<" ", ";", " ", "o", "n", "e">>,
      Ins("MOV", <<Reg(0), Imm(One)>>, 1)>>,
    <<<<"A", "D", "D", " ", "R", "0", ",", " ", "R", "1">>, <<" ", ";", " ", "s", "u", "m">>,
      Ins("ADD", <<Reg(0), Reg(1)>>, 1)>>,
    <<<<"H", "A", "L", "T">>, <<" ", ";", " ", "s", "t", "o", "p">>, Ins("HALT", <<>>, 1)>>,
    <<<<"N", "O", "P">>, <<" ", "/", "/", " ", "i", "d", "l", "e">>, Ins("NOP", <<>>, 1)>>,
    <<<<"P", "U", "S", "H", " ", "R", "1">>, <<>>, Ins("PUSH", <<Reg(1)>>, 1)>> }

CommentSources == {<<c[1] \o c[2]>> : c \in CommentCases} \cup {<<c[1]>> : c \in CommentCases}

\* the first value of .WORD in DataSource: as written, and the number
WordCases ==
  { << <<"-", "2">>, -2 >>,
    << <<"2", "5", "8">>, 258 >>,
    << <<"3", "0", "5", "4", "1", "9", "8", "9", "6">>, 305419896 >>,
    << <<"-", "1", "6", "9", "0", "9", "0", "6", "1">>, -16909061 >> }

\* .DATA ; .BYTE 65 ; msg: ; .STRING "Hi" ; val: ; .WORD w, 7 ; .TEXT ;
\* LOAD R0, [val] ; HALT
DataSource(w) ==
  <<<<".", "D", "A", "T", "A">>,
    <<".", "B", "Y", "T", "E", " ", "6", "5">>,
    <<"m", "s", "g", ":">>,
    <<".", "S", "T", "R", "I", "N", "G", " ", "\"", "H", "i", "\"">>,
    <<"v", "a", "l", ":">>,
    <<".", "W", "O", "R", "D", " ">> \o w \o <<",", " ", "7">>,
    <<".", "T", "E", "X", "T">>,
    <<"L", "O", "A", "D", " ", "R", "0", ",", " ", "[", "v", "a", "l", "]">>,
    <<"H", "A", "L", "T">>>>

\* lines 14-16, 24 and 29 of public/asm/sum_array.asm: loop: ; CMP R2, #0 ;
\* JZ done ; done: ; HALT, the CMP and the JZ with their trailing comments
SampleSource ==
  <<<<"l", "o", "o", "p", ":">>,
    <<" ", " ", " ", " ", "C", "M", "P", " ", "R", "2", ",", " ", "#", "0", " ", " ", " ", " ", " ", " ", " ", " ", " ", " ", " ", " ", " ", " ", " ", " ", " ", " ", ";", " ", "C", "h", "e", "c", "k", " ", "i", "f", " ", "c", "o", "u", "n", "t", "e", "r", " ", "i", "s", " ", "z", "e", "r", "o">>,
    <<" ", " ", " ", " ", "J", "Z", " ", "d", "o", "n", "e", " ", " ", " ", " ", " ", " ", " ", " ", " ", " ", " ", " ", " ", " ", " ", " ", " ", " ", " ", " ", " ", ";", " ", "J", "u", "m", "p", " ", "t", "o", " ", "d", "o", "n", "e", " ", "i", "f", " ", "f", "i", "n", "i", "s", "h", "e", "d">>,
    <<"d", "o", "n", "e", ":">>,
    <<" ", " ", " ", " ", "H", "A", "L", "T">>>>

\* Loop: ; NOP ; JMP loop  (the reference in another case than the definition)
CaseReferenceSource ==
  <<<<"L", "o", "o", "p", ":">>, <<"N", "O", "P">>, <<"J", "M", "P", " ", "l", "o", "o", "p">>>>

\* a: ; A: ; NOP  (two definitions that differ in case)
CaseDuplicateSource == <<<<"a", ":">>, <<"A", ":">>, <<"N", "O", "P">>>>

\* JMP end ; NOP ; end: HALT  (a reference above the definition)
ForwardReferenceSource ==
  <<<<"J", "M", "P", " ", "e", "n", "d">>, <<"N", "O", "P">>, <<"e", "n", "d", ":", " ", "H", "A", "L", "T">>>>

\* .DATA ; val: .WORD 7, 8 ; .TEXT ; LOAD R0, [val]  (a label and .WORD on one line)
InlineWordSource ==
  <<<<".", "D", "A", "T", "A">>, <<"v", "a", "l", ":", " ", ".", "W", "O", "R", "D", " ", "7", ",", " ", "8">>, <<".", "T", "E", "X", "T">>, <<"L", "O", "A", "D", " ", "R", "0", ",", " ", "[", "v", "a", "l", "]">>>>

\* top: INC R0 ; HALT  (a label and an instruction on one line)
InlineInstructionSource ==
  <<<<"t", "o", "p", ":", " ", "I", "N", "C", " ", "R", "0">>, <<"H", "A", "L", "T">>>>

OtherSources ==
  { CaseReferenceSource, CaseDuplicateSource, ForwardReferenceSource,
    InlineWordSource, InlineInstructionSource,
    \* start: ; NOP ; next: ; NOP ; JMP next ; end:  (text labels on their own lines)
    <<<<"s", "t", "a", "r", "t", ":">>, <<" ", " ", "N", "O", "P">>, <<"n", "e", "x", "t", ":">>, <<" ", " ", "N", "O", "P">>, <<" ", " ", "J", "M", "P", " ", "n", "e", "x", "t">>, <<"e", "n", "d", ":">>>>,
    \* .ORG 100 ; top: NOP ; JMP top
    <<<<".", "O", "R", "G", " ", "1", "0", "0">>, <<"t", "o", "p", ":", " ", "N", "O", "P">>, <<"J", "M", "P", " ", "t", "o", "p">>>>,
    \* Top: ; NOP ; JMP Top
    <<<<"T", "o", "p", ":">>, <<"N", "O", "P">>, <<"J", "M", "P", " ", "T", "o", "p">>>>,
    \* a: ; a: ; NOP
    <<<<"a", ":">>, <<"a", ":">>, <<"N", "O", "P">>>>,
    \* references: JMP nowhere ; LOAD R0, [nowhere] ; a forward reference ; names of Object.prototype
    <<<<"J", "M", "P", " ", "n", "o", "w", "h", "e", "r", "e">>>>,
    <<<<"L", "O", "A", "D", " ", "R", "0", ",", " ", "[", "n", "o", "w", "h", "e", "r", "e", "]">>>>,
    <<<<"H", "A", "L", "T">>, <<"J", "M", "P", " ", "t", "o", "S", "t", "r", "i", "n", "g">>>>,
    <<<<"H", "A", "L", "T">>, <<"L", "O", "A", "D", " ", "R", "0", ",", " ", "[", "v", "a", "l", "u", "e", "O", "f", "]">>>>,
    \* label and directive or instruction on one line
    <<<<".", "D", "A", "T", "A">>, <<"v", "a", "l", ":", " ", ".", "W", "O", "R", "D", " ", "7">>>>,
    \* operand counts and opcodes
    <<<<"N", "O", "P", " ", "R", "0">>>>,
    <<<<"M", "O", "V", " ", "R", "0">>>>,
    <<<<"I", "N", "C", " ", "R", "0", ",", " ", "R", "1">>>>,
    <<<<"F", "O", "O", " ", "R", "1">>>>,
    <<<<"x", ":", " ", "F", "O", "O">>>>,
    <<<<"p", "u", "s", "h", " ", "[", "b", "p", "-", "4", "]">>, <<"S", "t", "o", "r", "e", " ", "[", " ", "R", "1", " ", "+", " ", "8", " ", "]", ",", " ", "s", "p">>, <<"r", "e", "t">>>>,
    \* an instruction line inside .DATA
    <<<<".", "D", "A", "T", "A">>, <<"I", "N", "C", " ", "R", "0">>, <<".", "T", "E", "X", "T">>, <<"D", "E", "C", " ", "R", "1">>>> }

Sources ==
  OtherSources \cup CommentSources \cup {DataSource(c[1]) : c \in WordCases} \cup {SampleSource}

\* ------------------------------------------------------------------------
\* The host: it assembles a program, creates the CPU and the memory, copies
\* the data section to address 0 and then calls step and run.
\* ------------------------------------------------------------------------
\* step budgets and breakpoint sets the host passes to run
MaxSteps == 2
LongRun == 100
StepBudgets == (0..MaxSteps) \cup {LongRun}
BreakpointSets == {{}, {0}, {1}, {1, 2}}

\* the host gives up once failed pushes have sunk SP this many words below 0
MaxOverflow == 2

\* what the last call was given (before, maxSteps, breakpoints) and what it
\* returned or threw
CallRecord(kind, maxSteps, breakpoints, r) ==
  [kind |-> kind, maxSteps |-> maxSteps, breakpoints |-> breakpoints,
   before |-> [cpu |-> cpu, ram |-> ram],
   fault |-> r.fault, line |-> r.line, msg |-> r.msg, at |-> r.at,
   steps |-> r.steps, halted |-> r.halted, hitBreakpoint |-> r.hitBreakpoint,
   trace |-> r.trace, sys |-> r.sys]

\* the hook is reached only through SYS: a program without SYS runs the same
\* with and without it
Hooks(p) ==
  IF \E k \in 1..Len(p.ast) : p.ast[k].op = "SYS" THEN {"none", "host"} ELSE {"host"}

\* before any call of assemble
Unassembled ==
  [ok |-> FALSE, line |-> 0, msg |-> "", ast |-> <<>>, labels |-> NoLabels,
   dataSection |-> EmptyRam, textStart |-> Zero]

Init ==
  /\ program \in Programs
  /\ onSys \in Hooks(program)
  /\ cpu = createCPU
  /\ ram = program.dataSection
  /\ source = <<>>
  /\ asm = Unassembled
  /\ first = <<>>
  /\ repeated = FALSE
  /\ NoPairs
  /\ NotElsewhere
  /\ last = [kind |-> "none", maxSteps |-> 0, breakpoints |-> {},
             before |-> [cpu |-> createCPU, ram |-> program.dataSection],
             fault |-> FALSE, line |-> 0, msg |-> "", at |-> -1,
             steps |-> 0, halted |-> FALSE, hitBreakpoint |-> FALSE,
             trace |-> <<>>, sys |-> <<>>]

Reachable == JsGe(cpu.SP, I(-4 * MaxOverflow))

\* the call has returned or thrown r: the CPU and memory are as it left them
Returned(kind, maxSteps, breakpoints, r) ==
  /\ cpu' = r.cpu
  /\ ram' = r.ram
  /\ last' = CallRecord(kind, maxSteps, breakpoints, r)
  /\ UNCHANGED <<program, onSys, source, asm, first, repeated, twoPairs>>

\* step returns nothing: no step count, no breakpoint report
StepOutcome(s) ==
  [cpu |-> s.cpu, ram |-> s.ram, fault |-> s.fault, line |-> s.line, msg |-> s.msg,
   at |-> s.at, steps |-> 0, halted |-> s.cpu.halted, hitBreakpoint |-> FALSE,
   trace |-> <<>>, sys |-> s.sys]

\* the host calls step(cpu, program, ram, {onSys})
StepCall ==
  /\ Reachable
  /\ Returned("step", 0, {}, StepOutcome(step(cpu, program, ram, onSys)))
  /\ UNCHANGED elsewhere

\* the host calls run(cpu, program, ram, {maxSteps, breakpoints, onSys})
RunCall(maxSteps, breakpoints) ==
  /\ Reachable
  /\ Returned("run", maxSteps, breakpoints,
              run(cpu, program, ram, maxSteps, breakpoints, onSys))
  /\ UNCHANGED elsewhere

Next ==
  \/ StepCall
  \/ \E maxSteps \in StepBudgets, breakpoints \in BreakpointSets :
       RunCall(maxSteps, breakpoints)

Spec == Init /\ [][Next]_vars

\* ------------------------------------------------------------------------
\* The host that assembles source text (runChallenge of the grader): each
\* call of assemble is followed, when it returns a Program, by a fresh CPU
\* and a fresh memory holding the data section from address 0; step and run
\* are called only on a Program assemble has returned.
\* ------------------------------------------------------------------------
\* what the host keeps of the Program: step and run read ast and labels
Loaded(r) == [ast |-> r.ast, labels |-> r.labels, dataSection |-> r.dataSection]

NoCall(mem) ==
  [kind |-> "none", maxSteps |-> 0, breakpoints |-> {},
   before |-> [cpu |-> createCPU, ram |-> mem],
   fault |-> FALSE, line |-> 0, msg |-> "", at |-> -1,
   steps |-> 0, halted |-> FALSE, hitBreakpoint |-> FALSE,
   trace |-> <<>>, sys |-> <<>>]

AsmInit ==
  /\ program = Loaded(Unassembled)
  /\ onSys = "host"
  /\ cpu = createCPU
  /\ ram = EmptyRam
  /\ last = NoCall(EmptyRam)
  /\ source = <<>>
  /\ asm = Unassembled
  /\ first = <<>>
  /\ repeated = FALSE
  /\ NoPairs
  /\ NotElsewhere

\* the previous runChallenge is over: assemble threw, or the CPU halted, or
\* step threw, or the step budget ran out
Finished ==
  \/ ~asm.ok
  \/ cpu.halted
  \/ last.fault
  \/ last.kind = "run" /\ last.steps >= LongRun

\* the host calls assemble(text), at the start of a runChallenge
AssembleCall(text) ==
  /\ Finished
  /\ source' = text
  /\ asm' = assemble(text)
  /\ first' = IF first = <<>> THEN <<[source |-> text, asm |-> asm']>> ELSE first
  /\ repeated' = (first # <<>> /\ text = first[1].source)
  /\ program' = Loaded(asm')
  /\ cpu' = createCPU
  /\ ram' = asm'.dataSection
  /\ last' = NoCall(asm'.dataSection)
  /\ UNCHANGED <<onSys, twoPairs, elsewhere>>

AsmStepCall == asm.ok /\ StepCall

AsmRunCall == asm.ok /\ RunCall(LongRun, {})

AsmNext ==
  \/ \E text \in Sources : AssembleCall(text)
  \/ AsmStepCall
  \/ AsmRunCall

AsmSpec == AsmInit /\ [][AsmNext]_vars

\* ------------------------------------------------------------------------
\* The host that assembles and runs the sum-array sample.
\* ------------------------------------------------------------------------
\* public/asm/sum_array.asm as it is in the repository, line by line
SumArraySource ==
  <<<<";", " ", "S", "u", "m", " ", "A", "r", "r", "a", "y", " ", "-", " ", "C", "a", "l", "c", "u", "l", "a", "t", "e", " ", "s", "u", "m", " ", "o", "f", " ", "i", "n", "t", "e", "g", "e", "r", "s", " ", "i", "n", " ", "a", "n", " ", "a", "r", "r", "a", "y">>,
    <<";", " ", "T", "h", "i", "s", " ", "p", "r", "o", "g", "r", "a", "m", " ", "d", "e", "m", "o", "n", "s", "t", "r", "a", "t", "e", "s", " ", "a", "r", "r", "a", "y", " ", "i", "t", "e", "r", "a", "t", "i", "o", "n", " ", "a", "n", "d", " ", "a", "c", "c", "u", "m", "u", "l", "a", "t", "i", "o", "n">>,
    <<>>,
    <<".", "D", "A", "T", "A">>,
    <<"l", "e", "n", ":", " ", ".", "W", "O", "R", "D", " ", "5", " ", " ", " ", " ", " ", " ", " ", " ", " ", " ", " ", " ", " ", " ", " ", " ", " ", " ", " ", " ", ";", " ", "N", "u", "m", "b", "e", "r", " ", "o", "f", " ", "e", "l", "e", "m", "e", "n", "t", "s">>,
    <<"d", "a", "t", "a", ":", " ", ".", "W", "O", "R", "D", " ", "1", ",", " ", "2", ",", " ", "3", ",", " ", "4", ",", " ", "5", " ", " ", " ", " ", " ", " ", ";", " ", "A", "r", "r", "a", "y", " ", "d", "a", "t", "a">>,
    <<>>,
    <<".", "T", "E", "X", "T">>,
    <<"s", "t", "a", "r", "t", ":">>,
    <<" ", " ", " ", " ", "M", "O", "V", " ", "R", "0", ",", " ", "#", "0", " ", " ", " ", " ", " ", " ", " ", " ", " ", " ", " ", " ", " ", " ", " ", " ", " ", " ", ";", " ", "I", "n", "i", "t", "i", "a", "l", "i", "z", "e", " ", "s", "u", "m", " ", "t", "o", " ", "0">>,
    <<" ", " ", " ", " ", "M", "O", "V", " ", "R", "1", ",", " ", "d", "a", "t", "a", " ", " ", " ", " ", " ", " ", " ", " ", " ", " ", " ", " ", " ", " ", " ", " ", ";", " ", "L", "o", "a", "d", " ", "a", "r", "r", "a", "y", " ", "b", "a", "s", "e", " ", "a", "d", "d", "r", "e", "s", "s">>,
    <<" ", " ", " ", " ", "L", "O", "A", "D", " ", "R", "2", ",", " ", "[", "l", "e", "n", "]", " ", " ", " ", " ", " ", " ", " ", " ", " ", " ", " ", " ", " ", " ", ";", " ", "L", "o", "a", "d", " ", "a", "r", "r", "a", "y", " ", "l", "e", "n", "g", "t", "h">>,
    <<" ", " ", " ", " ">>,
    <<"l", "o", "o", "p", ":">>,
    <<" ", " ", " ", " ", "C", "M", "P", " ", "R", "2", ",", " ", "#", "0", " ", " ", " ", " ", " ", " ", " ", " ", " ", " ", " ", " ", " ", " ", " ", " ", " ", " ", ";", " ", "C", "h", "e", "c", "k", " ", "i", "f", " ", "c", "o", "u", "n", "t", "e", "r", " ", "i", "s", " ", "z", "e", "r", "o">>,
    <<" ", " ", " ", " ", "J", "Z", " ", "d", "o", "n", "e", " ", " ", " ", " ", " ", " ", " ", " ", " ", " ", " ", " ", " ", " ", " ", " ", " ", " ", " ", " ", " ", ";", " ", "J", "u", "m", "p", " ", "t", "o", " ", "d", "o", "n", "e", " ", "i", "f", " ", "f", "i", "n", "i", "s", "h", "e", "d">>,
    <<" ", " ", " ", " ">>,
    <<" ", " ", " ", " ", "L", "O", "A", "D", " ", "R", "3", ",", " ", "[", "R", "1", "]", " ", " ", " ", " ", " ", " ", " ", " ", " ", " ", " ", " ", " ", " ", " ", ";", " ", "L", "o", "a", "d", " ", "c", "u", "r", "r", "e", "n", "t", " ", "a", "r", "r", "a", "y", " ", "e", "l", "e", "m", "e", "n", "t">>,
    <<" ", " ", " ", " ", "A", "D", "D", " ", "R", "0", ",", " ", "R", "3", " ", " ", " ", " ", " ", " ", " ", " ", " ", " ", " ", " ", " ", " ", " ", " ", " ", " ", ";", " ", "A", "d", "d", " ", "t", "o", " ", "s", "u", "m">>,
    <<" ", " ", " ", " ", "A", "D", "D", " ", "R", "1", ",", " ", "#", "4", " ", " ", " ", " ", " ", " ", " ", " ", " ", " ", " ", " ", " ", " ", " ", " ", " ", " ", ";", " ", "M", "o", "v", "e", " ", "t", "o", " ", "n", "e", "x", "t", " ", "e", "l", "e", "m", "e", "n", "t", " ", "(", "4", " ", "b", "y", "t", "e", "s", " ", "p", "e", "r", " ", "W", "O", "R", "D", ")">>,
    <<" ", " ", " ", " ", "D", "E", "C", " ", "R", "2", " ", " ", " ", " ", " ", " ", " ", " ", " ", " ", " ", " ", " ", " ", " ", " ", " ", " ", " ", " ", " ", " ", ";", " ", "D", "e", "c", "r", "e", "m", "e", "n", "t", " ", "c", "o", "u", "n", "t", "e", "r">>,
    <<" ", " ", " ", " ", "J", "M", "P", " ", "l", "o", "o", "p", " ", " ", " ", " ", " ", " ", " ", " ", " ", " ", " ", " ", " ", " ", " ", " ", " ", " ", " ", " ", ";", " ", "C", "o", "n", "t", "i", "n", "u", "e", " ", "l", "o", "o", "p">>,
    <<" ", " ", " ", " ">>,
    <<"d", "o", "n", "e", ":">>,
    <<" ", " ", " ", " ", ";", " ", "R", "0", " ", "n", "o", "w", " ", "c", "o", "n", "t", "a", "i", "n", "s", " ", "t", "h", "e", " ", "s", "u", "m", " ", "(", "1", "5", ")">>,
    <<" ", " ", " ", " ", "S", "Y", "S", " ", "#", "1", " ", " ", " ", " ", " ", " ", " ", " ", " ", " ", " ", " ", " ", " ", " ", " ", " ", " ", " ", " ", " ", " ", ";", " ", "P", "r", "i", "n", "t", " ", "t", "h", "e", " ", "r", "e", "s", "u", "l", "t">>,
    <<" ", " ", " ", " ", "M", "O", "V", " ", "R", "0", ",", " ", "#", "0", " ", " ", " ", " ", " ", " ", " ", " ", " ", " ", " ", " ", " ", " ", " ", " ", " ", " ", ";", " ", "E", "x", "i", "t", " ", "c", "o", "d", "e", " ", "0">>,
    <<" ", " ", " ", " ", "S", "Y", "S", " ", "#", "3", " ", " ", " ", " ", " ", " ", " ", " ", " ", " ", " ", " ", " ", " ", " ", " ", " ", " ", " ", " ", " ", " ", ";", " ", "E", "x", "i", "t", " ", "p", "r", "o", "g", "r", "a", "m">>,
    <<" ", " ", " ", " ", "H", "A", "L", "T">>,
    <<>>>>

\* the same program with every label on a line of its own and no comment
SumArrayPlainSource ==
  <<<<".", "D", "A", "T", "A">>,
    <<"l", "e", "n", ":">>,
    <<".", "W", "O", "R", "D", " ", "5">>,
    <<"d", "a", "t", "a", ":">>,
    <<".", "W", "O", "R", "D", " ", "1", ",", " ", "2", ",", " ", "3", ",", " ", "4", ",", " ", "5">>,
    <<".", "T", "E", "X", "T">>,
    <<"s", "t", "a", "r", "t", ":">>,
    <<"M", "O", "V", " ", "R", "0", ",", " ", "#", "0">>,
    <<"M", "O", "V", " ", "R", "1", ",", " ", "d", "a", "t", "a">>,
    <<"L", "O", "A", "D", " ", "R", "2", ",", " ", "[", "l", "e", "n", "]">>,
    <<"l", "o", "o", "p", ":">>,
    <<"C", "M", "P", " ", "R", "2", ",", " ", "#", "0">>,
    <<"J", "Z", " ", "d", "o", "n", "e">>,
    <<"L", "O", "A", "D", " ", "R", "3", ",", " ", "[", "R", "1", "]">>,
    <<"A", "D", "D", " ", "R", "0", ",", " ", "R", "3">>,
    <<"A", "D", "D", " ", "R", "1", ",", " ", "#", "4">>,
    <<"D", "E", "C", " ", "R", "2">>,
    <<"J", "M", "P", " ", "l", "o", "o", "p">>,
    <<"d", "o", "n", "e", ":">>,
    <<"S", "Y", "S", " ", "#", "1">>,
    <<"M", "O", "V", " ", "R", "0", ",", " ", "#", "0">>,
    <<"S", "Y", "S", " ", "#", "3">>,
    <<"H", "A", "L", "T">>>>

SumInit ==
  /\ source \in {SumArraySource, SumArrayPlainSource}
  /\ asm = assemble(source)
  /\ program = Loaded(asm)
  /\ onSys = "host"
  /\ cpu = createCPU
  /\ ram = asm.dataSection
  /\ last = NoCall(asm.dataSection)
  /\ first = <<>>
  /\ repeated = FALSE
  /\ NoPairs
  /\ NotElsewhere

\* run with a budget of 30 steps or a long one
SumRunCall(maxSteps) == asm.ok /\ RunCall(maxSteps, {})

SumNext ==
  \/ AsmStepCall
  \/ \E maxSteps \in {30, LongRun} : SumRunCall(maxSteps)

SumSpec == SumInit /\ [][SumNext]_vars

\* ------------------------------------------------------------------------
\* The host that calls run several times in a row on one CPU and memory,
\* with no breakpoint.
\* ------------------------------------------------------------------------
MaxBudget == 8
MaxCalls == 4

\* a CPU with its memory
Pair(c, mem) == [cpu |-> c, ram |-> mem]

\* programs that raise no fault: they halt, exit through SYS #3 or loop
ComposePrograms ==
  {LoopProgram, StackProgram, ExitProgram, MemoryProgram, HaltProgram}
    \cup {p \in ComparePrograms : p.ast[1].operands[2].value = Zero
                                  /\ p.ast[2].operands[2].value \in {Zero, One}}

\* calls of step, one after the other, until the CPU is halted or k calls
\* have been made
RECURSIVE StepTimes(_, _, _, _, _)
StepTimes(c, mem, p, hook, k) ==
  LET next(s) == StepTimes(s.cpu, s.ram, p, hook, k - 1)
  IN  IF k = 0 \/ c.halted THEN Pair(c, mem) ELSE next(step(c, p, mem, hook))

ComposeInit ==
  /\ program \in ComposePrograms
  /\ onSys \in Hooks(program)
  /\ cpu = createCPU
  /\ ram = program.dataSection
  /\ last = NoCall(program.dataSection)
  /\ source = <<>>
  /\ asm = Unassembled
  /\ first = <<>>
  /\ repeated = FALSE
  /\ NoPairs
  /\ NotElsewhere

\* run(cpu, program, ram, {maxSteps, onSys}), entered in the account
ComposeRunCall(maxSteps) ==
  /\ session.calls < MaxCalls
  /\ session.budget + maxSteps <= MaxBudget
  /\ Returned("run", maxSteps, {}, run(cpu, program, ram, maxSteps, {}, onSys))
  /\ session' = [calls |-> session.calls + 1,
                 budget |-> session.budget + maxSteps,
                 steps |-> session.steps + last'.steps,
                 fault |-> session.fault \/ last'.fault]
  /\ UNCHANGED <<grade, debuggerState>>

ComposeNext == \E maxSteps \in 0..3 : ComposeRunCall(maxSteps)

ComposeSpec == ComposeInit /\ [][ComposeNext]_vars

\* ------------------------------------------------------------------------
\* The grader (runChallenge): it assembles the text, runs the Program from a
\* fresh CPU over the data section within the challenge's step limit and
\* evaluates the challenge's assertions on the CPU and memory left.
\* ------------------------------------------------------------------------
\* challenge.maxSteps || 10000
DefaultMaxSteps == 10000

\* an entry of challenge.asserts; reg and a label addr are character
\* sequences, a numeric addr is a number with addrIsLabel false
Assertion(type, reg, addrIsLabel, addr, equals, min, max, range) ==
  [type |-> type, reg |-> reg, addrIsLabel |-> addrIsLabel, addr |-> addr,
   equals |-> equals, min |-> min, max |-> max, range |-> range]

AssertRegister(reg, equals) ==
  Assertion("register", reg, FALSE, Zero, equals, Zero, Zero, <<>>)
AssertRegisterIn(reg, min, max) ==
  Assertion("registerIn", reg, FALSE, Zero, Zero, min, max, <<>>)
AssertMemory(addr, equals) ==
  Assertion("memory", <<>>, FALSE, addr, equals, Zero, Zero, <<>>)
AssertMemoryLabel(addr, equals) ==
  Assertion("memory", <<>>, TRUE, addr, equals, Zero, Zero, <<>>)
AssertMemoryRange(addr, range) ==
  Assertion("memoryEqualsRange", <<>>, FALSE, addr, Zero, Zero, Zero, range)

\* the register an assertion names: its value, or thrown
registerOf(reg, c) ==
  LET got(v) == [thrown |-> FALSE, v |-> v]
      thrown == [thrown |-> TRUE, v |-> Zero]
      numbered(regNum) ==
        IF ~regNum.nan /\ JsGe(regNum.v, Zero) /\ ~JsGt(regNum.v, I(7))
          THEN got(c.R[IntOf(regNum.v)])
        ELSE thrown
      named(regName) ==
        IF startsWith(regName, <<"R">>) /\ Len(regName) = 2
          THEN numbered(parseInt(<<regName[2]>>))
        ELSE IF Str(regName) = "SP" THEN got(c.SP)
        ELSE IF Str(regName) = "BP" THEN got(c.BP)
        ELSE IF Str(regName) = "IP" THEN got(c.IP)
        ELSE thrown
  IN  named(toUpperCase(reg))

\* the address a memory assertion names: a number, or thrown; a name the
\* label table only inherits gives a value that is no number, which passes
\* the bounds test and reads as index 0
addressOf(assert, labels) ==
  LET resolved(r) ==
        IF r.thrown THEN [thrown |-> TRUE, v |-> Zero]
        ELSE IF r.inherited THEN [thrown |-> FALSE, v |-> Zero]
        ELSE [thrown |-> FALSE, v |-> r.value]
  IN  IF assert.addrIsLabel THEN resolved(resolveAddress(assert.addr, labels))
      ELSE [thrown |-> FALSE, v |-> assert.addr]

\* result.ok of one assertion on the CPU and memory the run left; a throw
\* while evaluating is caught and leaves ok false
assertOk(assert, c, mem, labels) ==
  LET register(got) == ~got.thrown /\ got.v = assert.equals
      registerIn(got) ==
        ~got.thrown /\ JsGe(got.v, assert.min) /\ ~JsGt(got.v, assert.max)
      memory(addr) ==
        /\ ~addr.thrown
        /\ ~(JsLt(addr.v, Zero) \/ JsGe(addr.v, I(RAM_SIZE - 3)))
        /\ getInt32(mem, addr.v) = assert.equals
      memoryRange(addr) ==
        /\ ~addr.thrown
        /\ ~(JsLt(addr.v, Zero) \/ JsGe(addr.v, I(RAM_SIZE - 4 * Len(assert.range))))
        /\ \A i \in DOMAIN assert.range :
             getInt32(mem, JsAdd(addr.v, I(4 * (i - 1)))) = assert.range[i]
  IN  CASE assert.type = "register" -> register(registerOf(assert.reg, c))
        [] assert.type = "registerIn" -> registerIn(registerOf(assert.reg, c))
        [] assert.type = "memory" -> memory(addressOf(assert, labels))
        [] assert.type = "memoryEqualsRange" -> memoryRange(addressOf(assert, labels))

\* GradeResult: results holds result.ok of each assertion; error.kind is
\* "none" when the result has no error
GradeResult(passed, results, kind, line, msg, steps) ==
  [passed |-> passed, results |-> results,
   error |-> [kind |-> kind, line |-> line, msg |-> msg], steps |-> steps]

\* what runChallenge returns when assemble returned or threw a and the
\* execution loop left r
graded(challenge, a, r) ==
  LET results == [i \in DOMAIN challenge.asserts |->
                    assertOk(challenge.asserts[i], r.cpu, r.ram, a.labels)]
      limit(maxSteps) ==
        IF r.fault THEN GradeResult(FALSE, <<>>, "runtime", 0, r.msg, r.steps)
        ELSE IF r.steps >= maxSteps
          THEN GradeResult(FALSE, <<>>, "exceeded", 0, "", r.steps)
        ELSE GradeResult(\A i \in DOMAIN results : results[i], results, "none", 0, "",
                         r.steps)
  IN  IF ~a.ok THEN GradeResult(FALSE, <<>>, "assembly", a.line, a.msg, 0)
      ELSE limit(IF challenge.maxSteps = 0 THEN DefaultMaxSteps ELSE challenge.maxSteps)

\* the execution loop of runChallenge: step until the CPU is halted, the
\* limit is reached or step throws; nothing runs when assemble threw
gradeLoop(challenge, a) ==
  IF ~a.ok THEN RunReturn(Running(createCPU, EmptyRam, 0, <<>>, <<>>), FALSE)
  ELSE run(createCPU, Loaded(a), a.dataSection,
           IF challenge.maxSteps = 0 THEN DefaultMaxSteps ELSE challenge.maxSteps,
           {}, "host")

\* the texts graded: they halt at the second or third step, run off the
\* end, exit through SYS #3, raise a fault or do not assemble
GradeSources ==
  { <<<<"M", "O", "V", " ", "R", "0", ",", " ", "#", "7">>, <<"H", "A", "L", "T">>>>,
    <<<<"M", "O", "V", " ", "R", "0", ",", " ", "#", "7">>>>,
    <<<<"M", "O", "V", " ", "R", "0", ",", " ", "#", "7">>, <<"S", "Y", "S", " ", "#", "3">>, <<"H", "A", "L", "T">>>>,
    <<<<"P", "O", "P", " ", "R", "0">>>>,
    <<<<"F", "O", "O", " ", "R", "0">>>>,
    <<<<"M", "O", "V", " ", "R", "0", ",", " ", "#", "7">>, <<"S", "T", "O", "R", "E", " ", "[", "1", "6", "]", ",", " ", "R", "0">>, <<"H", "A", "L", "T">>>> }

\* the assertion lists of the challenges
GradeAsserts ==
  { <<>>,
    <<AssertRegister(<<"R", "0">>, I(7))>>,
    <<AssertRegister(<<"r", "0">>, I(8))>>,
    <<AssertRegister(<<"R", "0">>, I(7)), AssertRegisterIn(<<"S", "P">>, Zero, STACK_START)>>,
    <<AssertRegister(<<"R", "0">>, I(7)), AssertRegister(<<"R", "9">>, Zero)>>,
    <<AssertMemory(I(16), I(7))>>,
    <<AssertMemoryLabel(<<"n", "o", "n", "e">>, Zero)>>,
    <<AssertMemoryRange(I(12), <<Zero, Zero>>), AssertRegister(<<"I", "P">>, I(2))>> }

Challenges == {[maxSteps |-> m, asserts |-> a] : m \in 0..3, a \in GradeAsserts}

GradeInit ==
  /\ program = Loaded(Unassembled)
  /\ onSys = "host"
  /\ cpu = createCPU
  /\ ram = EmptyRam
  /\ last = NoCall(EmptyRam)
  /\ source = <<>>
  /\ asm = Unassembled
  /\ first = <<>>
  /\ repeated = FALSE
  /\ NoPairs
  /\ NotElsewhere

\* runChallenge(text, challenge): asm, program, cpu, ram and last are what
\* the call's assemble and loop left, grade its argument and its result
runChallenge(text, challenge) ==
  LET left(r) ==
        /\ last' = [CallRecord("run", challenge.maxSteps, {}, r)
                      EXCEPT !.before = [cpu |-> createCPU, ram |-> asm'.dataSection]]
        /\ cpu' = r.cpu
        /\ ram' = r.ram
        /\ grade' = [graded |-> TRUE, challenge |-> challenge,
                     result |-> graded(challenge, asm', r)]
  IN  /\ source' = text
      /\ asm' = assemble(text)
      /\ program' = Loaded(asm')
      /\ left(gradeLoop(challenge, asm'))
      /\ UNCHANGED <<onSys, first, repeated, twoPairs, session, debuggerState>>

GradeNext == \E text \in GradeSources, challenge \in Challenges : runChallenge(text, challenge)

GradeSpec == GradeInit /\ [][GradeNext]_vars

\* ------------------------------------------------------------------------
\* The debugger (App.tsx): it assembles the editor's text, keeps a set of
\* breakpoint lines toggled from the gutter, and Run calls run with them.
\* ------------------------------------------------------------------------
\* maxSteps of handleRun
RunMaxSteps == 10000

\* findExecutableLines(code): the lines that hold an instruction
findExecutableLines(a) == {a.ast[k].line : k \in DOMAIN a.ast}

\* snapToExecutableLine(line, executableLines).line: the line itself when it
\* is executable or no line is, otherwise a nearest executable line
snapToExecutableLine(line, executableLines) ==
  LET distance(l) == IF l >= line THEN l - line ELSE line - l
  IN  IF line \in executableLines \/ executableLines = {} THEN {line}
      ELSE {l \in executableLines : \A m \in executableLines : distance(l) <= distance(m)}

\* the texts in the editor: instructions on every line, and with a label,
\* a comment or a blank line between them
DebugSources ==
  { <<<<"M", "O", "V", " ", "R", "0", ",", " ", "#", "1">>, <<"I", "N", "C", " ", "R", "0">>, <<"H", "A", "L", "T">>>>,
    <<<<"s", "t", "a", "r", "t", ":">>, <<"M", "O", "V", " ", "R", "0", ",", " ", "#", "1">>, <<";", " ", "t", "w", "i", "c", "e">>, <<"I", "N", "C", " ", "R", "0">>, <<"I", "N", "C", " ", "R", "0">>, <<"H", "A", "L", "T">>>>,
    <<<<"M", "O", "V", " ", "R", "1", ",", " ", "#", "2">>, <<>>, <<"D", "E", "C", " ", "R", "1">>, <<"S", "Y", "S", " ", "#", "3">>>> }

DebugInit ==
  /\ source \in DebugSources
  /\ asm = assemble(source)
  /\ program = Loaded(asm)
  /\ onSys = "host"
  /\ cpu = createCPU
  /\ ram = asm.dataSection
  /\ last = NoCall(asm.dataSection)
  /\ first = <<>>
  /\ repeated = FALSE
  /\ NoPairs
  /\ session = NoSession
  /\ grade = NotGraded
  /\ debuggerState = [breakpoints |-> {}, executableLines |-> findExecutableLines(asm)]

\* toggleBreakpoint(line): the snapped line enters or leaves the breakpoints
toggleBreakpoint(line) ==
  /\ \E snappedLine \in snapToExecutableLine(line, debuggerState.executableLines) :
       debuggerState' =
         [debuggerState EXCEPT !.breakpoints =
            IF snappedLine \in @ THEN @ \ {snappedLine} ELSE @ \cup {snappedLine}]
  /\ UNCHANGED <<cpu, ram, program, onSys, last, source, asm, first, repeated, twoPairs,
                 session, grade>>

\* handleRun: run with the keys of the breakpoint map as the breakpoint set
handleRun ==
  /\ asm.ok
  /\ RunCall(RunMaxSteps, debuggerState.breakpoints)

\* handleReset: a fresh CPU and memory holding the data section
handleReset ==
  /\ cpu' = createCPU
  /\ ram' = program.dataSection
  /\ last' = NoCall(program.dataSection)
  /\ UNCHANGED <<program, onSys, source, asm, first, repeated, twoPairs, elsewhere>>

DebugNext ==
  \/ \E line \in 1..Len(source) : toggleBreakpoint(line)
  \/ handleRun
  \/ handleReset

DebugSpec == DebugInit /\ [][DebugNext]_vars

\* ------------------------------------------------------------------------
\* The host with two (CPU, memory) pairs and one Program: it calls step on
\* either pair, in any order.
\* ------------------------------------------------------------------------

PairPrograms == {StackProgram, MemoryProgram, ExitProgram, LoopProgram}

\* step keeping the flags in a place all CPUs share; the isolation property
\* tells it from stepPair
stepPairSharedFlags(ps, k, p, hook) ==
  LET after(s) ==
        [j \in DOMAIN ps |-> IF j = k THEN Pair(s.cpu, s.ram)
                             ELSE [ps[j] EXCEPT !.cpu.F = s.cpu.F]]
  IN  after(step(ps[k].cpu, p, ps[k].ram, hook))

\* step(cpu, program, ram, hooks) called on pair k of the pairs ps: it writes
\* the CPU and the memory it was given, returned or thrown
stepPair(ps, k, p, hook) ==
  LET after(s) == [ps EXCEPT ![k] = Pair(s.cpu, s.ram)]
  IN  after(step(ps[k].cpu, p, ps[k].ram, hook))

PairInit ==
  /\ program \in PairPrograms
  /\ onSys = "host"
  /\ cpu = createCPU
  /\ ram = EmptyRam
  /\ last = NoCall(EmptyRam)
  /\ source = <<>>
  /\ asm = Unassembled
  /\ first = <<>>
  /\ repeated = FALSE
  /\ pairs = <<Pair(createCPU, program.dataSection),
               Pair([createCPU EXCEPT !.R[0] = I(3)], program.dataSection)>>
  /\ alone = pairs
  /\ NotElsewhere

\* the host calls step on pair k
StepPairCall(k) ==
  /\ pairs' = stepPair(pairs, k, program, onSys)
  /\ alone' = [alone EXCEPT ![k] = stepPair(<<alone[k]>>, 1, program, onSys)[1]]
  /\ UNCHANGED <<cpu, ram, program, onSys, last, source, asm, first, repeated, elsewhere>>

PairNext == \E k \in 1..2 : StepPairCall(k)

PairSpec == PairInit /\ [][PairNext]_vars

\* ------------------------------------------------------------------------
\* Properties
\* ------------------------------------------------------------------------
\* the CPU as the last call received it
Before == last.before.cpu

\* the last call was a step that dispatched an instruction, and that instruction
Stepped == last.kind = "step" /\ last.at >= 0
Executed == program.ast[last.at + 1]

\* the instruction's first operand is one of R0..R7
GeneralDest(ins) ==
  /\ Len(ins.operands) >= 1
  /\ ins.operands[1].type = "reg"
  /\ ins.operands[1].value.hi = 0
  /\ ins.operands[1].value.lo < NumRegs

\* the value of a register or immediate source operand when the call began
SourceBefore(operand) ==
  IF operand.type = "imm" THEN operand.value ELSE Before.R[operand.value.lo]

\* the run began at an instruction whose index is in its breakpoint set
BeganAtBreakpoint == \E b \in last.breakpoints : Before.IP = [hi |-> 0, lo |-> b]

\* C1: run on a non-halted CPU with maxSteps >= 1 and IP in the breakpoint set
\* returns hitBreakpoint = true and 0 steps and changes nothing of the CPU or
\* memory; and no run hands an instruction whose index is in the breakpoint
\* set to step.
C1_BreakpointStopsRun ==
  last.kind = "run" =>
    /\ (~Before.halted /\ last.maxSteps >= 1 /\ BeganAtBreakpoint)
         => /\ last.hitBreakpoint
            /\ last.steps = 0
            /\ ~last.fault
            /\ cpu = Before
            /\ ram = last.before.ram
    /\ \A k \in 1..Len(last.trace) :
         \A b \in last.breakpoints : last.trace[k] # [hi |-> 0, lo |-> b]

\* a run stopped at once by a breakpoint on an instruction past the first
C1_Witness ==
  /\ last.kind = "run"
  /\ last.maxSteps >= 1
  /\ ~Before.halted
  /\ BeganAtBreakpoint
  /\ Before.IP = [hi |-> 0, lo |-> 1]
  /\ last.hitBreakpoint
  /\ last.steps = 0

\* C2: run executes at most maxSteps steps; when the CPU is not halted after
\* it, no fault was raised and no breakpoint was hit, it returns a step count
\* of exactly maxSteps with halted = false.
C2_RunBounded ==
  last.kind = "run" =>
    /\ last.steps <= last.maxSteps
    /\ Len(last.trace) <= last.maxSteps
    /\ (~cpu.halted /\ ~last.fault /\ ~last.hitBreakpoint)
         => (last.steps = last.maxSteps /\ ~last.halted)

\* the endless JMP loop run with maxSteps = 100: 100 steps, not halted
C2_Witness ==
  /\ last.kind = "run"
  /\ program = LoopProgram
  /\ last.maxSteps = LongRun
  /\ last.steps = LongRun
  /\ Len(last.trace) = LongRun
  /\ ~last.halted
  /\ ~last.fault
  /\ ~last.hitBreakpoint

\* C3: a step or run call on a halted CPU changes no register, flag, SP, BP,
\* IP, halted or memory byte, raises no fault, and run returns 0 steps; so
\* halted never goes back to false.
C3_HaltedIsFinal ==
  (last.kind \in {"step", "run"} /\ Before.halted) =>
    /\ cpu = Before
    /\ cpu.halted
    /\ ram = last.before.ram
    /\ ~last.fault
    /\ last.steps = 0
    /\ last.trace = <<>>
    /\ last.sys = <<>>

\* step called after SYS #3 has halted the CPU with INC R0 the next instruction
C3_Witness ==
  /\ last.kind = "step"
  /\ Before.halted
  /\ cpu.halted
  /\ program = ExitProgram
  /\ cpu.IP = [hi |-> 0, lo |-> 3]
  /\ cpu.R[0] = [hi |-> 0, lo |-> 7]

\* the index of the instruction a faulting call was executing
FaultIndex ==
  IF last.kind = "step" THEN Before.IP ELSE last.trace[Len(last.trace)]

\* the run entered its loop body: not halted, budget left, no breakpoint at IP
RunEntered ==
  /\ last.kind = "run"
  /\ ~Before.halted
  /\ last.maxSteps >= 1
  /\ ~BeganAtBreakpoint

\* C4: a fault raised by step, called directly or inside run, carries the
\* source line of the instruction at the current IP and leaves halted = false
\* and IP at the faulting instruction; run passes the fault of step on as it
\* is: a run whose first step faults throws that step's fault, with the CPU
\* and memory as that step left them, and throws nothing otherwise.
C4_FaultReported ==
  /\ last.fault =>
       /\ ~cpu.halted
       /\ cpu.IP = FaultIndex
       /\ cpu.IP.hi = 0
       /\ cpu.IP.lo < Len(program.ast)
       /\ last.line = program.ast[cpu.IP.lo + 1].line
  /\ RunEntered =>
       /\ step(Before, program, last.before.ram, onSys).fault <=> (last.fault /\ last.steps = 0)
       /\ (last.fault /\ last.steps = 0) =>
            /\ last.line = step(Before, program, last.before.ram, onSys).line
            /\ last.msg = step(Before, program, last.before.ram, onSys).msg
            /\ cpu = step(Before, program, last.before.ram, onSys).cpu
            /\ ram = step(Before, program, last.before.ram, onSys).ram

\* a run that executed one instruction and threw at the second
C4_Witness ==
  /\ last.kind = "run"
  /\ last.fault
  /\ last.steps = 1
  /\ cpu.IP = [hi |-> 0, lo |-> 1]
  /\ last.line = 5
  /\ last.msg = "Jump target out of bounds"

\* C5 (as claimed): a faulting step leaves R0..R7, SP, BP, IP, ZF, NF, OF,
\* halted and every memory byte as they were; only CF may change, to true, on
\* a division by zero.
C5_FaultLeavesStateUnchanged ==
  (last.kind = "step" /\ last.fault) =>
    /\ cpu.R = Before.R
    /\ cpu.SP = Before.SP
    /\ cpu.BP = Before.BP
    /\ cpu.IP = Before.IP
    /\ cpu.F.ZF = Before.F.ZF
    /\ cpu.F.NF = Before.F.NF
    /\ cpu.F.OF = Before.F.OF
    /\ cpu.halted = Before.halted
    /\ ram = last.before.ram
    /\ cpu.F.CF # Before.F.CF => (cpu.F.CF /\ last.msg = "Division by zero")

\* C6: a DIV step whose divisor resolves to 0 throws at the DIV's source line
\* with CF = true and every register, SP, BP, IP, the other flags and memory
\* as before.
C6_DivisionByZero ==
  (Stepped /\ Executed.op = "DIV" /\ GeneralDest(Executed)
     /\ SourceBefore(Executed.operands[2]) = [hi |-> 0, lo |-> 0]) =>
    /\ last.fault
    /\ last.line = Executed.line
    /\ cpu.F.CF
    /\ cpu = [Before EXCEPT !.F.CF = TRUE]
    /\ ram = last.before.ram

\* MOV R0,#1 ; MOV R1,#0 ; DIV R0,R1 has thrown and R0 is still 1
C6_Witness ==
  /\ Stepped
  /\ Executed.op = "DIV"
  /\ Executed.operands[2] = Reg(1)
  /\ last.fault
  /\ Before.R[0] = [hi |-> 0, lo |-> 1]
  /\ Before.R[1] = [hi |-> 0, lo |-> 0]
  /\ cpu.R[0] = [hi |-> 0, lo |-> 1]
  /\ cpu.F.CF

\* MOV R0,#2147483647 ; ADD R0,#1
OverflowProgram ==
  Program(<< <<"MOV", <<Reg(0), Imm(MaxInt32)>> >>, <<"ADD", <<Reg(0), Imm(One)>> >> >>,
          NoLabels)

\* C7 (as claimed): on a fresh CPU, MOV R0,#2147483647 ; ADD R0,#1 leaves
\* R0 = -2147483648 with OF = true and NF = true.
C7_AddOverflow ==
  (program = OverflowProgram /\ cpu.IP = [hi |-> 0, lo |-> 2] /\ ~last.fault) =>
    /\ cpu.R[0] = [hi |-> -32768, lo |-> 0]
    /\ cpu.F.OF
    /\ cpu.F.NF

ArithmeticOps == BinaryOps \cup UnaryOps \cup ShiftOps \cup {"DIV"}

\* the register an arithmetic instruction wrote
DestAfter == cpu.R[Executed.operands[1].value.lo]
DestBefore == Before.R[Executed.operands[1].value.lo]

\* C8 (as claimed): after a non-faulting arithmetic or logic step on R0..R7,
\* ZF is true iff the value now in the destination register is 0 and NF is
\* true iff it is negative.
C8_ZeroAndNegativeFlags ==
  (Stepped /\ ~last.fault /\ Executed.op \in ArithmeticOps /\ GeneralDest(Executed)) =>
    /\ cpu.F.ZF <=> (DestAfter.hi = 0 /\ DestAfter.lo = 0)
    /\ cpu.F.NF <=> DestAfter.hi < 0

\* the unsigned 32-bit reading of a 32-bit value, as its two 16-bit halves
UnsignedHalves(n) == [hi |-> IF n.hi < 0 THEN n.hi + 65536 ELSE n.hi, lo |-> n.lo]

\* unsigned(a) + unsigned(b) > 2^32 - 1
UnsignedCarry(a, b) ==
  UnsignedHalves(a).hi + UnsignedHalves(b).hi + ((a.lo + b.lo) \div 65536) >= 65536

\* unsigned(a) < unsigned(b)
UnsignedBorrow(a, b) ==
  \/ UnsignedHalves(a).hi < UnsignedHalves(b).hi
  \/ UnsignedHalves(a).hi = UnsignedHalves(b).hi /\ a.lo < b.lo

\* the second operand value of ADD/SUB, 1 for INC/DEC
Addend ==
  IF Executed.op \in {"INC", "DEC"} THEN [hi |-> 0, lo |-> 1]
  ELSE SourceBefore(Executed.operands[2])

\* C9: after ADD a,b and INC a (b = 1) on 32-bit operands, CF is true iff
\* unsigned(a) + unsigned(b) exceeds 2^32 - 1; after SUB a,b and DEC a (b = 1),
\* CF is true iff unsigned(a) < unsigned(b).
C9_CarryFlag ==
  (Stepped /\ ~last.fault /\ GeneralDest(Executed)) =>
    /\ Executed.op \in {"ADD", "INC"} => (cpu.F.CF <=> UnsignedCarry(DestBefore, Addend))
    /\ Executed.op \in {"SUB", "DEC"} => (cpu.F.CF <=> UnsignedBorrow(DestBefore, Addend))

\* SUB 0,-1 has borrowed: unsigned 0 is below unsigned 0xFFFFFFFF
C9_Witness ==
  /\ Stepped
  /\ ~last.fault
  /\ GeneralDest(Executed)
  /\ Executed.op = "SUB"
  /\ DestBefore = [hi |-> 0, lo |-> 0]
  /\ Addend = [hi |-> -1, lo |-> 65535]
  /\ cpu.F.CF

\* the sign of the 32-bit value in a register
Negative(n) == n.hi < 0

\* C10 (as claimed): after ADD a,b, OF is true iff a and b have the same sign
\* and the wrapped result the opposite sign; after SUB a,b, OF is true iff a
\* and b have different signs and the wrapped result the sign of b.
C10_OverflowFlag ==
  (Stepped /\ ~last.fault /\ GeneralDest(Executed)) =>
    /\ Executed.op = "ADD" =>
         (cpu.F.OF <=> /\ Negative(DestBefore) = Negative(Addend)
                       /\ Negative(DestAfter) # Negative(DestBefore))
    /\ Executed.op = "SUB" =>
         (cpu.F.OF <=> /\ Negative(DestBefore) # Negative(Addend)
                       /\ Negative(DestAfter) = Negative(Addend))

\* the exact product p2 * 2^32 + p1 * 2^16 + p0 lies in [-2^31, 2^31 - 1]
FitsInt32(p) == \/ p.p2 = 0 /\ p.p1 < 32768
                \/ p.p2 = -1 /\ p.p1 >= 32768

\* the exact product of the operands of the MUL just executed
ExactProduct == WideMul(DestBefore, SourceBefore(Executed.operands[2]))

\* C11 (as claimed): after MUL a,b on a general register the destination holds
\* the low 32 bits of the exact product, and CF = OF = true iff the exact
\* product lies outside [-2^31, 2^31 - 1]; otherwise CF = OF = false.
C11_MulFlags ==
  (Stepped /\ ~last.fault /\ Executed.op = "MUL" /\ GeneralDest(Executed)) =>
    /\ DestAfter = ToInt32([hi |-> ExactProduct.p1, lo |-> ExactProduct.p0])
    /\ cpu.F.CF = ~FitsInt32(ExactProduct)
    /\ cpu.F.OF = ~FitsInt32(ExactProduct)

\* bit i (0..31) of a 32-bit value
BitOf(v, i) ==
  IF i < 16 THEN (v.lo \div 2^i) % 2 ELSE (UnsignedHalves(v).hi \div 2^(i - 16)) % 2

\* the shift amount of the SHL or SHR just dispatched
ShiftAmount == SourceBefore(Executed.operands[2])

\* C12 (as claimed): after SHL r,n or SHR r,n with 1 <= n <= 31, CF is the last
\* bit shifted out of the old register value (bit 32-n for SHL, bit n-1 for
\* SHR); after AND, OR, XOR and NOT, CF and OF are both false; a shift amount
\* outside [0,31] raises a runtime fault.
C12_ShiftAndLogicFlags ==
  (Stepped /\ GeneralDest(Executed)) =>
    /\ (Executed.op \in ShiftOps /\ ShiftAmount.hi = 0 /\ ShiftAmount.lo \in 1..31) =>
         /\ ~last.fault
         /\ Executed.op = "SHL" => (cpu.F.CF <=> BitOf(DestBefore, 32 - ShiftAmount.lo) = 1)
         /\ Executed.op = "SHR" => (cpu.F.CF <=> BitOf(DestBefore, ShiftAmount.lo - 1) = 1)
    /\ (Executed.op \in {"AND", "OR", "XOR", "NOT"} /\ ~last.fault) =>
         (~cpu.F.CF /\ ~cpu.F.OF)
    /\ (Executed.op \in ShiftOps /\ (ShiftAmount.hi # 0 \/ ShiftAmount.lo > 31)) =>
         last.fault

\* the flags SUB leaves for the operand values a and b
FlagsOfSub(a, b) == setFlags(Before, JsSub(a, b), a, b, "sub").F

\* C13 (as claimed): CMP a,b sets ZF, NF, CF and OF to exactly the values that
\* SUB a,b sets for the same operand values (CF the unsigned borrow), and
\* writes no register and no memory byte.
C13_CmpFlagsAsSub ==
  (Stepped /\ ~last.fault /\ Executed.op = "CMP") =>
    /\ cpu.F = FlagsOfSub(SourceBefore(Executed.operands[1]),
                          SourceBefore(Executed.operands[2]))
    /\ cpu.F.CF <=> UnsignedBorrow(SourceBefore(Executed.operands[1]),
                                   SourceBefore(Executed.operands[2]))
    /\ cpu.R = Before.R
    /\ cpu.SP = Before.SP
    /\ cpu.BP = Before.BP
    /\ ram = last.before.ram

\* the instruction index a jump or call operand names
TargetOf(operand) ==
  IF operand.type = "label" THEN program.labels[operand.name] ELSE operand.value

\* the flag condition the claim gives for each conditional jump
ConditionHolds(op, ZF, NF, CF, OF) ==
  \/ op = "JZ" /\ ZF
  \/ op = "JNZ" /\ ~ZF
  \/ op = "JC" /\ CF
  \/ op = "JNC" /\ ~CF
  \/ op = "JN" /\ NF
  \/ op = "JNN" /\ ~NF
  \/ op = "JG" /\ ~ZF /\ (NF <=> OF)
  \/ op = "JGE" /\ (NF <=> OF)
  \/ op = "JL" /\ ~(NF <=> OF)
  \/ op = "JLE" /\ (ZF \/ ~(NF <=> OF))

\* the condition of the conditional jump just executed held when it began
WasTaken == ConditionHolds(Executed.op, Before.F.ZF, Before.F.NF, Before.F.CF, Before.F.OF)

\* C14: a conditional jump is taken exactly when its flag condition holds; a
\* taken jump leaves IP at the target, an untaken jump leaves IP one greater
\* than before, and neither changes flags, registers, SP, BP or memory.
C14_ConditionalJumps ==
  (Stepped /\ ~last.fault /\ Executed.op \in CondJumps) =>
    /\ WasTaken => cpu.IP = TargetOf(Executed.operands[1])
    /\ ~WasTaken => cpu.IP = [hi |-> 0, lo |-> Before.IP.lo + 1]
    /\ cpu.F = Before.F
    /\ cpu.R = Before.R
    /\ cpu.SP = Before.SP
    /\ cpu.BP = Before.BP
    /\ cpu.halted = Before.halted
    /\ ram = last.before.ram

\* JL taken with NF = false and OF = true, back to the first instruction
C14_Witness ==
  /\ Stepped
  /\ ~last.fault
  /\ Executed.op = "JL"
  /\ ~Before.F.NF
  /\ Before.F.OF
  /\ Before.IP = [hi |-> 0, lo |-> 2]
  /\ cpu.IP = [hi |-> 0, lo |-> 0]

\* the step just dispatched was a JMP, a CALL or a conditional jump whose
\* condition held
Redirects ==
  /\ Stepped
  /\ \/ Executed.op \in {"JMP", "CALL"}
     \/ Executed.op \in CondJumps /\ WasTaken

\* an instruction index inside [0, instructionCount)
InRange(n) == n.hi = 0 /\ n.lo < Len(program.ast)

\* C15 (as claimed): every JMP, taken conditional jump and CALL whose resolved
\* target lies outside [0, instructionCount) raises a runtime fault and leaves
\* IP unchanged; so no jump or call sets IP to an index outside that range.
C15_JumpTargetsChecked ==
  Redirects =>
    /\ ~InRange(TargetOf(Executed.operands[1])) => (last.fault /\ cpu.IP = Before.IP)
    /\ ~last.fault => InRange(cpu.IP)

\* C16 (as claimed): after every successfully executed instruction other than
\* a taken jump, CALL or RET, IP is exactly one greater than before the step.
C16_IpIncrements ==
  (Stepped /\ ~last.fault /\ ~Redirects /\ Executed.op # "RET") =>
    cpu.IP = [hi |-> 0, lo |-> Before.IP.lo + 1]

\* in a program of StackBalancePrograms: the number of pushes, the SP the
\* pushes start from and the value the i-th PUSH is given
PushCount == (Len(program.ast) - 2) \div 2
StartSP == program.ast[1].operands[2].value
PushedValue(i) ==
  IF program.ast[2 + i].operands[1].type = "imm" THEN program.ast[2 + i].operands[1].value
  ELSE IF program.ast[2 + i].operands[1] = Reg(0) THEN program.ast[2].operands[2].value
  ELSE [hi |-> 0, lo |-> StartSP.lo - 4 * (i - 1)]

\* four-byte little-endian word at address n of a memory, as a 32-bit value
WordAt(mem, n) ==
  [hi |-> IF ByteAt(mem, n + 3) >= 128
            THEN ByteAt(mem, n + 3) * 256 + ByteAt(mem, n + 2) - 65536
            ELSE ByteAt(mem, n + 3) * 256 + ByteAt(mem, n + 2),
   lo |-> ByteAt(mem, n + 1) * 256 + ByteAt(mem, n)]

\* n - 4 and n + 4 on the two halves of a number
Minus4(n) == IF n.lo >= 4 THEN [hi |-> n.hi, lo |-> n.lo - 4]
             ELSE [hi |-> n.hi - 1, lo |-> n.lo + 65532]
Plus4(n) == IF n.lo < 65532 THEN [hi |-> n.hi, lo |-> n.lo + 4]
            ELSE [hi |-> n.hi + 1, lo |-> n.lo - 65532]

\* C17: N PUSH steps of register or immediate operands followed by N POP steps
\* into general registers, none faulting, leave SP as it was before the first
\* PUSH, and the k-th POP yields the value of the (N+1-k)-th PUSH; each PUSH
\* leaves SP 4 lower with the value at the new SP, each POP leaves SP 4 higher
\* with the destination holding the word that was at the old SP.
C17_StackBalance ==
  /\ (program \in StackBalancePrograms /\ cpu.IP = [hi |-> 0, lo |-> Len(program.ast)]) =>
       /\ cpu.SP = StartSP
       /\ \A k \in 1..PushCount : cpu.R[k] = PushedValue(PushCount + 1 - k)
  /\ (Stepped /\ ~last.fault /\ Executed.op = "PUSH"
        /\ Executed.operands[1].type \in {"reg", "imm"}) =>
       /\ cpu.SP = Minus4(Before.SP)
       /\ WordAt(ram, cpu.SP.lo) = (IF Executed.operands[1] = Reg(SPIdx) THEN Before.SP
                                    ELSE SourceBefore(Executed.operands[1]))
  /\ (Stepped /\ ~last.fault /\ Executed.op = "POP" /\ GeneralDest(Executed)) =>
       /\ cpu.SP = Plus4(Before.SP)
       /\ DestAfter = WordAt(last.before.ram, Before.SP.lo)
       /\ ram = last.before.ram

\* PUSH #5 ; PUSH R0 ; PUSH SP from SP = 12, then three POPs, all executed
C17_Witness ==
  /\ program \in StackBalancePrograms
  /\ PushCount = 3
  /\ StartSP = [hi |-> 0, lo |-> 12]
  /\ cpu.IP = [hi |-> 0, lo |-> 8]
  /\ cpu.SP = [hi |-> 0, lo |-> 12]
  /\ cpu.R[1] = [hi |-> 0, lo |-> 4]
  /\ cpu.R[2] = [hi |-> -32768, lo |-> 0]
  /\ cpu.R[3] = [hi |-> 0, lo |-> 5]

\* SP - 4 < 0, SP >= RAM_SIZE - 4 and 4 <= SP <= RAM_SIZE - 4 when the step began
PushOverflows == Before.SP.hi < 0 \/ (Before.SP.hi = 0 /\ Before.SP.lo < 4)
PopUnderflows == Before.SP.hi > 0 \/ (Before.SP.hi = 0 /\ Before.SP.lo >= 65532)
PushFits == Before.SP.hi = 0 /\ Before.SP.lo >= 4 /\ Before.SP.lo <= 65532

\* the step just dispatched was a PUSH of a register or an immediate
PushedPlain == Stepped /\ Executed.op = "PUSH" /\ Executed.operands[1].type \in {"reg", "imm"}

\* what the claim says of PUSH, POP and RET
PushPopRetLimits ==
  /\ (PushedPlain /\ PushOverflows) =>
       (last.fault /\ last.msg = "Stack overflow" /\ ram = last.before.ram)
  /\ (Stepped /\ Executed.op = "POP" /\ PopUnderflows) =>
       (last.fault /\ last.msg = "Stack underflow")
  /\ (Stepped /\ Executed.op = "RET" /\ PopUnderflows) =>
       (last.fault /\ last.msg = "Stack underflow on RET")
  /\ (Stepped /\ Executed.op \in {"POP", "RET"} /\ Before.SP = [hi |-> 0, lo |-> 65532]) =>
       last.fault
  /\ (PushedPlain /\ PushFits) => ~last.fault

SysStepped == Stepped /\ Executed.op = "SYS" /\ Executed.operands[1].type = "imm"
SysNumber == Executed.operands[1].value

\* the CPU as before the step with IP one greater
Advanced == [Before EXCEPT !.IP = [hi |-> 0, lo |-> Before.IP.lo + 1]]

\* C19: a SYS n step hands n to the onSys hook, when one is supplied, exactly
\* once, with the CPU as it was before the engine's own handling; afterwards
\* n = 3 has set halted = true, n = 1 or 2 has changed nothing but IP (+1), and
\* any other n raises a fault and leaves halted false.
C19_Syscalls ==
  SysStepped =>
    /\ onSys = "host" => last.sys = <<[syscall |-> SysNumber, cpu |-> Before]>>
    /\ onSys = "none" => last.sys = <<>>
    /\ ram = last.before.ram
    /\ SysNumber = [hi |-> 0, lo |-> 3] =>
         (~last.fault /\ cpu.halted /\ cpu = [Advanced EXCEPT !.halted = TRUE])
    /\ SysNumber \in {[hi |-> 0, lo |-> 1], [hi |-> 0, lo |-> 2]} =>
         (~last.fault /\ cpu = Advanced)
    /\ SysNumber \notin {[hi |-> 0, lo |-> 1], [hi |-> 0, lo |-> 2], [hi |-> 0, lo |-> 3]} =>
         (last.fault /\ last.msg = "Unknown syscall" /\ ~cpu.halted /\ cpu = Before)

\* SYS #3 with a hook: the hook was handed 3 and a CPU not yet halted
C19_Witness ==
  /\ SysStepped
  /\ onSys = "host"
  /\ SysNumber = [hi |-> 0, lo |-> 3]
  /\ Len(last.sys) = 1
  /\ ~last.sys[1].cpu.halted
  /\ cpu.halted

\* the address a memory operand of the instruction just executed names
AddressOf(operand) ==
  IF operand.name # "" THEN program.labels[operand.name].lo
  ELSE IF operand.indirect
    THEN Before.R[operand.value.lo].hi * 65536 + Before.R[operand.value.lo].lo
           + operand.offset.hi * 65536 + operand.offset.lo
  ELSE operand.value.lo

\* the bytes of two memories agree everywhere but at the four addresses from n
SameButWord(new, old, n) ==
  \A k \in (DOMAIN new \cup DOMAIN old) \ (n..(n + 3)) : ByteAt(new, k) = ByteAt(old, k)

\* C20: STORE to a destination that is not a memory operand raises a fault; a
\* STORE that does not fault has a memory destination and leaves the source
\* value as a little-endian 32-bit word at the resolved address, every other
\* byte, every register and every flag as before; a non-faulting LOAD yields
\* the word at its address, so LOAD after STORE returns the stored value.
C20_StoreWord ==
  /\ (Stepped /\ Executed.op = "STORE" /\ Executed.operands[1].type # "mem") => last.fault
  /\ (Stepped /\ Executed.op = "STORE" /\ ~last.fault) =>
       /\ Executed.operands[1].type = "mem"
       /\ WordAt(ram, AddressOf(Executed.operands[1])) = SourceBefore(Executed.operands[2])
       /\ SameButWord(ram, last.before.ram, AddressOf(Executed.operands[1]))
       /\ cpu = Advanced
  /\ (Stepped /\ Executed.op = "LOAD" /\ ~last.fault /\ GeneralDest(Executed)) =>
       DestAfter = WordAt(last.before.ram, AddressOf(Executed.operands[2]))
  /\ (program \in StoreLoadPrograms /\ cpu.IP = [hi |-> 0, lo |-> 6]) =>
       /\ cpu.R[2] = cpu.R[0]
       /\ cpu.R[3] = [hi |-> IF cpu.R[0].lo >= 32768 THEN cpu.R[0].lo - 65536 ELSE cpu.R[0].lo,
                      lo |-> 65535]

\* 258 stored over the upper half of a word of ones at the top of memory, and
\* loaded back: bytes FF FF 02 01 00 00 from address RAM_SIZE - 6
C20_Witness ==
  /\ program \in StoreLoadPrograms
  /\ cpu.IP = [hi |-> 0, lo |-> 6]
  /\ cpu.R[1] = [hi |-> 0, lo |-> 65530]
  /\ cpu.R[2] = [hi |-> 0, lo |-> 258]
  /\ cpu.R[3] = [hi |-> 258, lo |-> 65535]
  /\ ByteAt(ram, 65530) = 255
  /\ ByteAt(ram, 65532) = 2
  /\ ByteAt(ram, 65533) = 1

\* the operand positions the case of the instruction just executed hands to
\* resolveOperand, and for STORE the target whose address the case computes
AccessPositions ==
  CASE Executed.op \in {"MOV", "LOAD", "DIV"} \cup BinaryOps \cup ShiftOps -> {2}
    [] Executed.op \in {"STORE", "CMP"} -> {1, 2}
    [] Executed.op \in {"JMP", "CALL", "PUSH", "SYS"} -> {1}
    [] Executed.op \in CondJumps -> IF WasTaken THEN {1} ELSE {}
    [] OTHER -> {}

\* a word address outside [0, RAM_SIZE - 4]
OutOfRange(n) == n < 0 \/ n > RAM_SIZE - 4

\* the word address of the implicit stack access of PUSH and CALL (below SP)
\* and of POP and RET (at SP)
StackAddress ==
  IF Executed.op \in {"PUSH", "CALL"}
    THEN Before.SP.hi * 65536 + Before.SP.lo - 4
  ELSE Before.SP.hi * 65536 + Before.SP.lo

\* C21: a step whose instruction reads or writes a word outside
\* [0, RAM_SIZE - 4], through a memory operand, a STORE target or the stack
\* access of PUSH, POP, CALL or RET, raises a fault, and a step that raises a
\* fault leaves every memory byte as it was.
C21_OutOfRangeAccess ==
  /\ (/\ Stepped
      /\ \E i \in AccessPositions :
           /\ Executed.operands[i].type = "mem"
           /\ OutOfRange(AddressOf(Executed.operands[i])))
       => last.fault /\ ram = last.before.ram
  /\ (Stepped /\ Executed.op \in {"PUSH", "POP", "CALL", "RET"} /\ OutOfRange(StackAddress))
       => last.fault /\ ram = last.before.ram
  /\ (last.kind = "step" /\ last.fault) => ram = last.before.ram

\* ADD R0,[R1] with R1 = RAM_SIZE - 3 has thrown, and so has PUSH with SP two
\* bytes past the end of memory; C21_Witness is the first
C21_Witness ==
  /\ Stepped
  /\ Executed.op = "ADD"
  /\ Executed.operands[2].type = "mem"
  /\ AddressOf(Executed.operands[2]) = RAM_SIZE - 3
  /\ last.fault
  /\ last.msg = "Memory access out of bounds"

\* C22 (as claimed): an arithmetic, logic or shift instruction whose first
\* operand is not a register, and a MOV, LOAD or LEA whose destination is
\* not a register, raises a fault and leaves every register as it was.
C22_NonRegisterDestination ==
  (/\ Stepped
   /\ Executed.op \in BinaryOps \cup UnaryOps \cup ShiftOps \cup {"DIV", "MOV", "LOAD", "LEA"}
   /\ Executed.operands[1].type # "reg")
    => /\ last.fault
       /\ cpu.R = Before.R
       /\ cpu.SP = Before.SP
       /\ cpu.BP = Before.BP

FirstWord(line) == IF IsBlank(trim(line)) THEN "" ELSE Opcode(trim(line))

\* the line defines a label, and the name it defines
DefinesLabel(line) == FirstWord(line) # "" /\ trim(line)[1] # "." /\ indexOf(trim(line), ":") > 0
LabelChars(line) == trim(SubSeq(trim(line), 1, indexOf(trim(line), ":") - 1))
LabelName(line) == Str(LabelChars(line))

\* line n of the source lies in a .DATA region: the nearest .DATA or .TEXT
\* above it is a .DATA
InDataRegion(n) ==
  \E m \in 1..(n - 1) :
    /\ FirstWord(source[m]) = ".DATA"
    /\ \A k \in (m + 1)..(n - 1) : FirstWord(source[k]) # ".TEXT"

\* the index of the first instruction defined at or after line n: the number
\* of instructions defined above it
InstructionsBefore(n) == Cardinality({k \in DOMAIN asm.ast : asm.ast[k].line < n})

\* C24: in a Program assemble has returned, a label defined in a .TEXT region
\* maps to the index of the first instruction defined at or after it (the
\* instruction count if none follows), .ORG or not, and a JMP to the label
\* makes that instruction the next one executed.
C24_TextLabelIsIndex ==
  asm.ok =>
    \A n \in DOMAIN source :
      (DefinesLabel(source[n]) /\ ~InDataRegion(n)) =>
        /\ asm.labels[LabelName(source[n])] = I(InstructionsBefore(n))
        /\ (/\ Stepped
            /\ Executed.op = "JMP"
            /\ Executed.operands[1].name = LabelName(source[n]))
             => ~last.fault /\ cpu.IP = I(InstructionsBefore(n))

\* C25: a label of a .DATA region maps to the number of data bytes emitted
\* before it; .BYTE emits one byte, .STRING its characters and a NUL, .WORD
\* four little-endian bytes per value; with the data section copied to
\* address 0, LOAD R0, [val] yields the first .WORD value after val, negative
\* values included.
C25_DataLabels ==
  \A c \in WordCases :
    source = DataSource(c[1]) =>
      /\ asm.ok
      /\ asm.labels = [l \in {"msg", "val"} |-> IF l = "msg" THEN I(1) ELSE I(4)]
      /\ DOMAIN asm.dataSection \subseteq 0..11
      /\ <<ByteAt(asm.dataSection, 0), ByteAt(asm.dataSection, 1),
           ByteAt(asm.dataSection, 2), ByteAt(asm.dataSection, 3)>> = <<65, 72, 105, 0>>
      /\ \A j \in 0..3 : ByteAt(asm.dataSection, 4 + j) = (c[2] \div 256 ^ j) % 256
      /\ <<ByteAt(asm.dataSection, 8), ByteAt(asm.dataSection, 9),
           ByteAt(asm.dataSection, 10), ByteAt(asm.dataSection, 11)>> = <<7, 0, 0, 0>>
      /\ (Stepped /\ Executed.op = "LOAD") => ~last.fault /\ cpu.R[0] = I(c[2])

\* LOAD R0, [val] has read back a negative .WORD value
C25_Witness ==
  \E c \in WordCases :
    /\ source = DataSource(c[1])
    /\ c[2] < 0
    /\ Stepped
    /\ Executed.op = "LOAD"
    /\ cpu.R[0] = I(c[2])

\* C26: label names are case-insensitive: a reference that differs from the
\* definition only in letter case resolves to the definition's address, two
\* definitions that differ only in case are rejected, and the grader's
\* lookup by lower-cased name finds every label the program defines.
C26_CaseInsensitiveLabels ==
  /\ source = CaseReferenceSource =>
        /\ asm.ok
        /\ (Stepped /\ Executed.op = "JMP") => ~last.fault /\ cpu.IP = Zero
  /\ (\E n, m \in DOMAIN source :
         /\ n < m
         /\ DefinesLabel(source[n])
         /\ DefinesLabel(source[m])
         /\ Str(toLowerCase(LabelChars(source[n]))) = Str(toLowerCase(LabelChars(source[m]))))
       => ~asm.ok
  /\ asm.ok =>
        \A n \in DOMAIN source :
          DefinesLabel(source[n]) =>
            resolveAddress(LabelChars(source[n]), asm.labels)
              = [thrown |-> FALSE, inherited |-> FALSE,
                 value |-> asm.labels[LabelName(source[n])]]

\* the names the source defines as labels
DefinedNames == {LabelName(source[n]) : n \in {m \in DOMAIN source : DefinesLabel(source[m])}}

\* the names the operands of the returned Program refer to
ReferencedNames ==
  UNION {{asm.ast[k].operands[j].name : j \in DOMAIN asm.ast[k].operands} :
           k \in DOMAIN asm.ast} \ {""}

\* C27: assemble throws for a source in which a label operand or a [label]
\* operand names a label defined nowhere in it, so every name a returned
\* Program refers to is defined in the source; it never throws "Undefined
\* label" for a name the source defines, before or after the reference, and a
\* forward reference resolves to the label's final address.
C27_UndefinedLabelRejected ==
  /\ asm.ok => ReferencedNames \subseteq DefinedNames
  /\ ~asm.ok =>
        \A name \in DefinedNames :
          asm.msg \notin {"Undefined label: " \o name,
                          "Undefined label in memory reference: " \o name}
  /\ source = ForwardReferenceSource =>
        /\ asm.ok
        /\ (Stepped /\ Executed.op = "JMP") => ~last.fault /\ cpu.IP = I(2)

\* C28: a trailing comment after an instruction is ignored: the line with
\* its comment assembles to the instruction the line without it stands for,
\* and the lines of the sample program assemble.
C28_TrailingCommentIgnored ==
  /\ \A c \in CommentCases :
       source \in {<<c[1]>>, <<c[1] \o c[2]>>} => asm.ok /\ asm.ast = <<c[3]>>
  /\ source = SampleSource => asm.ok

\* C29: a label may share its line with .WORD or with an instruction:
\* 'val: .WORD 7, 8' inside .DATA assembles, binds val to the data offset
\* before the words and appends them; 'top: INC R0' inside .TEXT assembles,
\* binds top to the index of the INC and records the INC with its operand.
C29_InlineAfterLabel ==
  /\ source = InlineWordSource =>
        /\ asm.ok
        /\ asm.labels = [l \in {"val"} |-> Zero]
        /\ [a \in 0..7 |-> ByteAt(asm.dataSection, a)]
             = [a \in 0..7 |-> IF a = 0 THEN 7 ELSE IF a = 4 THEN 8 ELSE 0]
  /\ source = InlineInstructionSource =>
        /\ asm.ok
        /\ asm.labels = [l \in {"top"} |-> Zero]
        /\ asm.ast = <<Ins("INC", <<Reg(0)>>, 1), Ins("HALT", <<>>, 2)>>

\* the operand count the arity table gives an opcode
ArityOf(op) ==
  IF op \in {"NOP", "HALT", "RET"} THEN 0
  ELSE IF op \in {"INC", "DEC", "NOT", "PUSH", "POP", "CALL", "SYS", "JMP"} \cup CondJumps THEN 1
  ELSE 2

\* the operand texts of an instruction text: what follows the opcode, cut at
\* the commas
OperandTexts(text) ==
  SelectSeq(split(joinRest(splitWords(text), 2), {","}), LAMBDA t : trim(t) # <<>>)

\* the instruction text of line n of the source (<<>>: none)
InstructionText(n) == InstructionPart(trim(source[n]))

\* C30: every instruction of a Program assemble has returned has an opcode
\* of the opcode set, the opcode and the operands of its own source line and
\* the operand count of the arity table, and every instruction line of the
\* source has its instruction; a source for which this cannot hold gets an
\* AssemblyError and no Program.
C30_InstructionsWellFormed ==
  asm.ok =>
    /\ \A k \in DOMAIN asm.ast :
         /\ asm.ast[k].op \in validOps
         /\ asm.ast[k].line \in DOMAIN source
         /\ InstructionText(asm.ast[k].line) # <<>>
         /\ asm.ast[k].op = Opcode(InstructionText(asm.ast[k].line))
         /\ Len(asm.ast[k].operands) = ArityOf(asm.ast[k].op)
         /\ Len(asm.ast[k].operands) = Len(OperandTexts(InstructionText(asm.ast[k].line)))
         /\ \A j \in DOMAIN asm.ast[k].operands :
              asm.ast[k].operands[j]
                = parseOperand(OperandTexts(InstructionText(asm.ast[k].line))[j]).operand
    /\ \A n \in DOMAIN source :
         InstructionText(n) # <<>> => \E k \in DOMAIN asm.ast : asm.ast[k].line = n
    /\ \A k, l \in DOMAIN asm.ast : k < l => asm.ast[k].line < asm.ast[l].line

\* a Program with an instruction of no operand, one of one operand and one
\* of two operands has been returned
C30_Witness ==
  /\ asm.ok
  /\ \A count \in 0..2 : \E k \in DOMAIN asm.ast : Len(asm.ast[k].operands) = count

RanFromStart ==
  /\ last.kind = "run"
  /\ last.maxSteps >= 30
  /\ last.before = [cpu |-> createCPU, ram |-> asm.dataSection]

\* C32: the sum-array program assembles, and run from a fresh CPU over its
\* data section ends halted, without fault, with R0 = 15, after at most 30
\* steps.
C32_SumArrayTerminates ==
  source \in {SumArraySource, SumArrayPlainSource} =>
    /\ asm.ok
    /\ RanFromStart =>
          /\ ~last.fault
          /\ last.halted
          /\ last.steps <= 30
          /\ cpu.R[0] = I(15)

\* the effective address of a LEA source operand on the CPU c: the address
\* of the label, the literal, or base register plus offset
EffectiveAddress(operand, c) ==
  IF IsString(operand) THEN program.labels[operand.name]
  ELSE IF operand.indirect THEN JsAdd(GetBase(c, IntOf(operand.value)), operand.offset)
  ELSE operand.value

\* C33: LEA dst, src leaves the effective address of src in dst, and leaves
\* the flags and the memory as they were.
C33_LeaEffectiveAddress ==
  (Stepped /\ Executed.op = "LEA" /\ ~last.fault) =>
    /\ GetBase(cpu, IntOf(Executed.operands[1].value))
         = EffectiveAddress(Executed.operands[2], Before)
    /\ cpu.F = Before.F
    /\ ram = last.before.ram

\* the relation a conditional jump stands for after CMP a, b
Relation(op, a, b) ==
  CASE op = "JG"  -> JsLt(b, a)
    [] op = "JGE" -> ~JsLt(a, b)
    [] op = "JL"  -> JsLt(a, b)
    [] op = "JLE" -> ~JsLt(b, a)
    [] op = "JZ"  -> a = b

\* a step executed the jump of a comparison program, right after its CMP
ComparedAndJumped ==
  /\ Stepped
  /\ program \in ComparePrograms
  /\ last.at = 2
  /\ ~last.fault

\* C34: the jump after CMP a, b is taken exactly when the signed relation it
\* stands for holds between a and b, whatever the size of a - b.
C34_SignedCompareJumps ==
  ComparedAndJumped =>
    (cpu.IP = Zero <=> Relation(Executed.op, Before.R[0], program.ast[2].operands[2].value))

\* JL was taken after comparing the least with the greatest 32-bit value
C34_Witness ==
  /\ ComparedAndJumped
  /\ Executed.op = "JL"
  /\ Before.R[0] = MinInt32
  /\ program.ast[2].operands[2].value = MaxInt32
  /\ cpu.IP = Zero

\* one run from the start of the account with all the budgets added up
WholeRun == run(createCPU, program, program.dataSection, session.budget, {}, onSys)

\* C35: after run calls in a row with budgets adding up to b, none of which
\* faulted, the CPU and memory are those one run with budget b leaves, the
\* step counts returned add up to the count that run returns, and both are
\* what calling step until the CPU is halted or b calls are made leaves.
C35_RunComposes ==
  (session.calls > 0 /\ ~session.fault) =>
    /\ ~WholeRun.fault
    /\ cpu = WholeRun.cpu
    /\ ram = WholeRun.ram
    /\ session.steps = WholeRun.steps
    /\ Pair(cpu, ram) = StepTimes(createCPU, program.dataSection, program, onSys, session.budget)

\* a second run continued a first one that had stopped on its budget
C35_Witness ==
  /\ session.calls = 2
  /\ ~session.fault
  /\ last.maxSteps = 3
  /\ last.steps > 0
  /\ session.steps = last.steps + 2
  /\ ~cpu.halted

\* C36: in a program that calls f from index 3, CALL lowers SP by 4, stores
\* the index after it there and jumps to f; the RET of f then resumes at
\* that index, when SP is where the CALL left it, with SP as it was before
\* the CALL and without fault, also when the CALL is the last instruction.
C36_CallRetRoundTrip ==
  (Stepped /\ program \in CallPrograms) =>
    /\ Executed.op = "CALL" =>
          /\ ~last.fault
          /\ cpu.SP = JsSub(Before.SP, I(4))
          /\ getInt32(ram, cpu.SP) = I(last.at + 1)
          /\ cpu.IP = One
    /\ (Executed.op = "RET" /\ Before.SP = JsSub(STACK_START, I(4))) =>
          /\ ~last.fault
          /\ cpu.IP = I(4)
          /\ cpu.SP = STACK_START

\* the CPU after the instruction ins, which targets SP or BP, is executed
\* with R0 as its destination instead, R0 holding what the target held
OnGeneralRegister(c, mem, ins) ==
  LET twin(held) ==
        step([c EXCEPT !.R[0] = held, !.IP = Zero],
             Program(<< <<ins.op, <<Reg(0)>> \o Tail(ins.operands)>> >>, NoLabels),
             mem, onSys).cpu
  IN  twin(GetBase(c, IntOf(ins.operands[1].value)))

\* a step executed the arithmetic or logic instruction of a program that
\* targets SP or BP
TargetedPointer ==
  /\ Stepped
  /\ program \in AluTargetPrograms
  /\ last.at = 1
  /\ ~last.fault

\* C37: an arithmetic or logic instruction on SP or BP leaves the value and
\* the flags the same instruction leaves on a general register, and SP and
\* BP stay in the 32-bit signed range.
C37_PointerArithmetic ==
  TargetedPointer =>
    /\ GetBase(cpu, IntOf(Executed.operands[1].value))
         = OnGeneralRegister(Before, last.before.ram, Executed).R[0]
    /\ cpu.F = OnGeneralRegister(Before, last.before.ram, Executed).F
    /\ IsInt32(cpu.SP)
    /\ IsInt32(cpu.BP)

\* the assertion holds of the CPU and memory the grader's run left
Holds(assert) ==
  LET pointer == [n \in {"SP", "BP", "IP"} |->
                    CASE n = "SP" -> cpu.SP [] n = "BP" -> cpu.BP [] n = "IP" -> cpu.IP]
      name == Str(toUpperCase(assert.reg))
      held == IF name \in DOMAIN pointer THEN {pointer[name]}
              ELSE {cpu.R[i] : i \in {j \in RegIdx : name = "R" \o ToString(j)}}
      words == [i \in DOMAIN assert.range |-> getInt32(ram, JsAdd(assert.addr, I(4 * (i - 1))))]
  IN  CASE assert.type = "register" -> held = {assert.equals}
        [] assert.type = "registerIn" ->
             \E v \in held : ~JsLt(v, assert.min) /\ ~JsLt(assert.max, v)
        [] assert.type = "memory" ->
             /\ ~assert.addrIsLabel
             /\ getInt32(ram, assert.addr) = assert.equals
        [] assert.type = "memoryEqualsRange" -> words = assert.range

\* the step limit in force
LimitOf(challenge) == IF challenge.maxSteps = 0 THEN DefaultMaxSteps ELSE challenge.maxSteps

\* C38: the grader reports the step limit exceeded only when the program
\* has not halted after maxSteps steps; a program that halts within its
\* maxSteps steps, the last one included, has every assertion evaluated;
\* and passed is true exactly when there is no error and every assertion
\* holds.
C38_StepLimitVerdict ==
  grade.graded =>
    /\ grade.result.error.kind = "exceeded" =>
          ~cpu.halted /\ last.steps = LimitOf(grade.challenge)
    /\ (asm.ok /\ ~last.fault /\ cpu.halted /\ last.steps <= LimitOf(grade.challenge)) =>
          /\ grade.result.error.kind = "none"
          /\ Len(grade.result.results) = Len(grade.challenge.asserts)
    /\ grade.result.passed <=>
          /\ asm.ok
          /\ ~last.fault
          /\ cpu.halted
          /\ \A i \in DOMAIN grade.challenge.asserts : Holds(grade.challenge.asserts[i])

\* the source line of the instruction at index i
LineAt(i) == program.ast[i + 1].line

\* the indices of the instructions assembled from the breakpoint lines
BreakpointIndices ==
  {k - 1 : k \in {j \in DOMAIN program.ast : program.ast[j].line \in debuggerState.breakpoints}}

\* the run the debugger has just made treated its breakpoint lines as such:
\* it was handed their instruction indices, executed no instruction of a
\* breakpoint line, and if it stopped at a breakpoint the instruction about
\* to run is on a breakpoint line
StoppedAtLines ==
  /\ last.breakpoints = BreakpointIndices
  /\ \A i \in DOMAIN last.trace :
       LineAt(IntOf(last.trace[i])) \notin debuggerState.breakpoints
  /\ last.hitBreakpoint => LineAt(IntOf(cpu.IP)) \in debuggerState.breakpoints

\* C39: every Run of the debugger stops before the instruction of a
\* breakpoint line and only there: the set it hands to run is the set of
\* instruction indices of the breakpoint lines.
C39_BreakpointLines ==
  [][(last' # last /\ last'.kind = "run") => StoppedAtLines']_vars

====
